---- MODULE Spec2Model ----
(***************************************************************************)
(* Options Alpha Toolkit: the alpha scoring engine                         *)
(* (AnalyzerTab.calculate_results) and the Monte Carlo simulation run      *)
(* (SimulationTab.run_simulation, SimulationTab.update_results_table).     *)
(*                                                                         *)
(* Numbers.  The program computes with Python/numpy floats.  The model     *)
(* computes exactly in the field Q(sqrt 252): a number is a triple         *)
(* <<a, b, d>> standing for (a + b*sqrt(252)) / d with d > 0 and           *)
(* gcd(a, b, d) = 1, so that equal numbers are equal triples.  sqrt(252)   *)
(* enters through np.sqrt(252) in the realized volatility and in the       *)
(* daily volatility.                                                       *)
(***************************************************************************)
EXTENDS Integers, Sequences, FiniteSets, TLC

(***************************************************************************)
(* Bounds of the model.                                                    *)
(***************************************************************************)
\* longest contract list held in options_data
MaxContracts == 2
\* simulated days (pairs of random draws) plus changes of the selected metric
\* over the whole behaviour; a run is started only when all its days fit,
\* which also bounds the "Number of Simulations" and the "Holding Period"
\* entered
MaxSteps == 3

(***************************************************************************)
(* Program constants.                                                      *)
(***************************************************************************)
\* np.sqrt(252): trading days in a year, the radicand of the number field
TradingDays == 252
\* sim_trades.setRange(1, 1000)
MinPaths == 1
WidgetMaxPaths == 1000
\* sim_holding.setRange(1, 5)
MinDays == 1
WidgetMaxDays == 5

(***************************************************************************)
(* Exact arithmetic in Q(sqrt 252).                                        *)
(***************************************************************************)
IAbs(n) == IF n < 0 THEN -n ELSE n

RECURSIVE GCD(_, _)
GCD(m, n) == IF n = 0 THEN m ELSE GCD(n, m % n)

\* the canonical triple of (a + b*sqrt(252)) / d, d # 0
Num(a, b, d) ==
    LET g == GCD(GCD(IAbs(a), IAbs(b)), IAbs(d))
        s == IF d < 0 THEN -1 ELSE 1
    IN  <<(s * a) \div g, (s * b) \div g, (s * d) \div g>>

\* the rational n/d
Rat(n, d) == Num(n, 0, d)
Zero == Rat(0, 1)
\* np.sqrt(252)
Sqrt252 == Num(0, 1, 1)

\* x + y over the least common denominator
FAdd(x, y) ==
    LET g == GCD(x[3], y[3])
        m == x[3] \div g
        n == y[3] \div g
    IN  Num(x[1] * n + y[1] * m, x[2] * n + y[2] * m, m * y[3])
FNeg(x) == <<-x[1], -x[2], x[3]>>
FSub(x, y) == FAdd(x, FNeg(y))
\* the content of the numerator of x: gcd of its two coefficients
Content(x) == GCD(IAbs(x[1]), IAbs(x[2]))
\* x * y, common factors of a numerator and the other denominator cancelled first
FMul(x, y) ==
    LET g == GCD(Content(x), y[3])
        h == GCD(Content(y), x[3])
        a == x[1] \div g
        b == x[2] \div g
        c == y[1] \div h
        e == y[2] \div h
    IN  Num(a * c + TradingDays * b * e, a * e + b * c, (x[3] \div h) * (y[3] \div g))
\* 1/y for y # 0: d/a for a rational a/d, else by the conjugate,
\* d(a - b s) / (a^2 - 252 b^2)
FInv(y) ==
    IF y[2] = 0 THEN Num(y[3], 0, y[1])
    ELSE LET g == Content(y)
             a == y[1] \div g
             b == y[2] \div g
         IN  FMul(Num(a, -b, a * a - TradingDays * b * b), Num(y[3], 0, g))
FDiv(x, y) == FMul(x, FInv(y))

\* a > b * sqrt(252) for a, b > 0, decided by the convergents of sqrt(252)
\* (111/7 < 3921/247 < 28209/1777 < sqrt(252) < 32257/2032 < 4048/255 < 127/8)
\* before the squares are compared
AboveRoot(a, b) ==
    IF 7 * a <= 111 * b THEN FALSE
    ELSE IF 8 * a >= 127 * b THEN TRUE
    ELSE IF 247 * a <= 3921 * b THEN FALSE
    ELSE IF 255 * a >= 4048 * b THEN TRUE
    ELSE IF 1777 * a <= 28209 * b THEN FALSE
    ELSE IF 2032 * a >= 32257 * b THEN TRUE
    ELSE a * a > TradingDays * b * b

\* np.sign: -1, 0 or 1
Sign(x) ==
    LET g == IF Content(x) = 0 THEN 1 ELSE Content(x)
        a == x[1] \div g
        b == x[2] \div g
    IN  IF b = 0 THEN (IF a > 0 THEN 1 ELSE IF a < 0 THEN -1 ELSE 0)
        ELSE IF a = 0 THEN (IF b > 0 THEN 1 ELSE -1)
        ELSE IF a > 0 /\ b > 0 THEN 1
        ELSE IF a < 0 /\ b < 0 THEN -1
        ELSE IF a > 0 THEN (IF AboveRoot(a, -b) THEN 1 ELSE -1)
        ELSE (IF AboveRoot(-a, b) THEN -1 ELSE 1)

FGt(x, y) == Sign(FSub(x, y)) = 1
FGe(x, y) == Sign(FSub(x, y)) >= 0
FLe(x, y) == Sign(FSub(x, y)) <= 0
FAbs(x) == IF Sign(x) < 0 THEN FNeg(x) ELSE x
FMax(x, y) == IF FGt(y, x) THEN y ELSE x

(***************************************************************************)
(* State.                                                                  *)
(***************************************************************************)
VARIABLES
    \* AnalyzerTab
    equation_selector,  \* equation_selector.currentIndex(): 0..3
    options_data,       \* the contract list (a sequence of dicts)
    \* the scoring engine exercised on its own
    contract,           \* the dict handed to calculate_results
    call,               \* what the last calculate_results call did
    \* SimulationTab
    sim_results,        \* self.sim_results: NoResults or the summary list
    simulation_detailed_results, \* dict strike -> per-path detail
    \* run_simulation in progress: its position and its locals
    pc,
    cfg,                \* num_sims, stock_price, volatility, holding_period, use_realistic
    canceled,           \* progress.wasCanceled()
    option_idx, sim_idx, day, sim_counter,
    local_results,      \* the local list sim_results
    acc,                \* returns, win_count, best_case and the four unsigned totals
    detailed_data,
    path,               \* current_price, option_value and the four signed sums
    \* the input widgets of SimulationTab
    sim_widgets,        \* sim_trades, sim_price, sim_vol, sim_holding, sim_realistic
    \* the results table of AnalyzerTab
    auto_rank_checkbox, \* auto_rank_checkbox.isChecked()
    results_table,      \* the rows of results_table, top to bottom
    \* HedgeCalculatorDialog
    hedge,              \* w: what its input widgets hold, out: what it displays
    \* observation of the runs (history, not program state)
    obs

vars == <<equation_selector, options_data, contract, call, sim_results,
          simulation_detailed_results, pc, cfg, canceled, option_idx, sim_idx,
          day, sim_counter, local_results, acc, detailed_data, path,
          sim_widgets, auto_rank_checkbox, results_table, hedge, obs>>

analyzerVars == <<equation_selector, options_data>>
scoreVars == <<contract, call>>
storedVars == <<sim_results, simulation_detailed_results>>
localVars == <<pc, cfg, canceled, option_idx, sim_idx, day, sim_counter,
               local_results, acc, detailed_data, path>>
runVars == <<localVars, obs>>
simWidgetVars == <<sim_widgets>>
tableVars == <<auto_rank_checkbox, results_table>>
hedgeVars == <<hedge>>
widgetVars == <<simWidgetVars, tableVars, hedgeVars>>

(***************************************************************************)
(* Alpha scoring engine: AnalyzerTab.calculate_results.                    *)
(***************************************************************************)
\* d[k] = v on a Python dict: k is added when absent
SetItem(d, k, v) == [x \in (DOMAIN d) \cup {k} |-> IF x = k THEN v ELSE d[x]]

\* the labels returned for equation_selector indices 0, 1, 2 and the else branch
FormulaLabel(index) ==
    IF index = 0 THEN "SAS"
    ELSE IF index = 1 THEN "RA-SAS"
    ELSE IF index = 2 THEN "TAS"
    ELSE "Expected Return"

\* rv = (atr / underlying) * np.sqrt(252) if underlying > 0 else 0
RealizedVol(atr, underlying) ==
    IF FGt(underlying, Zero) THEN FMul(FDiv(atr, underlying), Sqrt252) ELSE Zero

\* the rv stored as a fraction, the factor 100 forgotten
StoreRVFraction(option_data, rv) == SetItem(option_data, "rv", rv)

\* option_data["rv"] = rv * 100
StoreRV(option_data, rv) == SetItem(option_data, "rv", FMul(rv, Rat(100, 1)))

\* theta taken with its sign, abs() forgotten
ThetaSigned(option_data) == option_data["theta"]

\* theta = abs(option_data["theta"])
ThetaCost(option_data) == FAbs(option_data["theta"])

\* the SAS guard written theta >= 0
SasGuardNonNegative(theta) == FGe(theta, Zero)
\* the guard of the SAS quotient: theta > 0
SasGuard(theta) == FGt(theta, Zero)
\* the RA-SAS guard written denominator != 0
RaSasGuardNonZero(denominator) == denominator # Zero
\* the guard of the RA-SAS quotient: denominator > 0
RaSasGuard(denominator) == FGt(denominator, Zero)

\* x / y on Python floats; a zero divisor raises ZeroDivisionError, which the
\* caller records, and the quotient is then not produced (Zero stands in)
PyDiv(x, y) == IF y = Zero THEN Zero ELSE FDiv(x, y)

\* The whole of calculate_results for the selected equation `index`.  Returns
\* the dict as the call leaves it, the (formula, result) pair, and the divisors
\* of the quotients the selected branch evaluated.
calculate_results(option_data, index) ==
    LET delta == option_data["delta"]
        gamma == option_data["gamma"]
        theta == ThetaCost(option_data)
        vega == option_data["vega"]
        bid == option_data["bid"]
        ask == option_data["ask"]
        slippage == option_data["slippage"]
        underlying == option_data["underlying"]
        atr == option_data["atr"]
        iv == FDiv(option_data["iv"], Rat(100, 1))
        spread == FSub(ask, bid)
        rv == RealizedVol(atr, underlying)
        denominator == FAdd(FAdd(theta, spread), slippage)
        sas == IF SasGuard(theta) THEN PyDiv(FMul(delta, gamma), theta) ELSE Zero
        ra_sas == IF RaSasGuard(denominator)
                  THEN PyDiv(FMul(delta, gamma), denominator) ELSE Zero
        vol_edge == FMul(FSub(rv, iv), vega)
        result == IF index = 0 THEN sas
                  ELSE IF index = 1 THEN ra_sas
                  ELSE IF index = 2 THEN FAdd(sas, vol_edge)
                  ELSE FAdd(ra_sas, vol_edge)
        divisors == (IF FGt(underlying, Zero) THEN {underlying} ELSE {})
                    \cup (IF index \in {0, 2} /\ SasGuard(theta) THEN {theta} ELSE {})
                    \cup (IF index \notin {0, 2} /\ RaSasGuard(denominator)
                          THEN {denominator} ELSE {})
    IN  [option |-> StoreRV(option_data, rv),
         formula |-> FormulaLabel(index),
         result |-> result,
         divisors |-> divisors,
         raised |-> Zero \in divisors]

\* option_data["formula"] = formula; option_data["result"] = result, for the
\* outcome r of calculate_results
Scored(r) == SetItem(SetItem(r.option, "formula", r.formula), "result", r.result)

(***************************************************************************)
(* Monte Carlo simulation: SimulationTab.run_simulation.                   *)
(***************************************************************************)
\* best_case = -float('inf')
NegInf == <<-1, 0, 0>>
\* self.sim_results = None
NoResults == <<"None">>
\* {} : the empty dict
EmptyDict == [k \in {} |-> 0]

\* best_case overwritten by every return: the last return, not the largest
BestOfLast(best_case, return_value) == return_value
\* best_case set by the first path only
BestOfFirst(best_case, return_value) ==
    IF best_case = NegInf THEN return_value ELSE best_case
\* max(best_case, return_value)
BestOf(best_case, return_value) ==
    IF best_case = NegInf THEN return_value ELSE FMax(best_case, return_value)

\* the initial value taken from the contract's own underlying price and strike
InitialValueIntrinsic(option) ==
    FMax(FSub(option["underlying"], option["strike"]), Zero)
\* initial_value = (bid + ask) / 2
InitialValue(option) == FDiv(FAdd(option["bid"], option["ask"]), Rat(2, 1))

\* returns, win_count, best_case and the four factor contribution trackers as
\* they are set up for a contract (lines 170-178)
FreshAcc ==
    [returns |-> <<>>, win_count |-> 0, best_case |-> NegInf,
     delta_contrib |-> Zero, gamma_contrib |-> Zero,
     theta_contrib |-> Zero, vega_contrib |-> Zero]

\* detailed_data as it is set up for a contract (lines 181-187)
FreshDetail ==
    [returns |-> <<>>, delta_contributions |-> <<>>, gamma_contributions |-> <<>>,
     theta_contributions |-> <<>>, vega_contributions |-> <<>>]

\* "Copy initial values" and this sim's factor contributions (lines 197-204)
FreshPath(stock_price, initial_value) ==
    [current_price |-> stock_price, option_value |-> initial_value,
     this_delta_contrib |-> Zero, this_gamma_contrib |-> Zero,
     this_theta_contrib |-> Zero, this_vega_contrib |-> Zero]

\* the path loop one iteration short: range(num_sims - 1)
PathLoopOneShort(idx, num_sims) == idx + 1 < num_sims
\* for sim_idx in range(num_sims): is there an iteration sim_idx?
PathLoopContinues(idx, num_sims) == idx < num_sims
\* the day loop with one day too many: range(holding_period + 1)
DayLoopOneMore(d, holding_period) == d <= holding_period
\* for day in range(holding_period)
DayLoopContinues(d, holding_period) == d < holding_period

\* One iteration of the day loop (lines 208-240) for the draws z (price move)
\* and z2 (IV shock): the changes of the day
DayChanges(option, c, price, z, z2) ==
    LET daily_vol == FDiv(c.volatility, Sqrt252)
        price_change == FMul(FMul(price, daily_vol), z)
        iv_change == FSub(FMul(Rat(1, 100), z2),
                          FMul(Rat(5, 1000), Rat(Sign(price_change), 1)))
    IN  [price_change |-> price_change,
         new_price |-> FAdd(price, price_change),
         delta_change |-> FMul(option["delta"], price_change),
         gamma_change |-> FMul(FMul(Rat(1, 2), option["gamma"]),
                               FMul(price_change, price_change)),
         theta_change |-> FDiv(option["theta"], Rat(TradingDays, 1)),
         vega_change |-> FMul(FMul(option["vega"], iv_change), Rat(100, 1))]

\* "Track factor contributions" (lines 225-228): the unsigned totals
TrackTotals(a, ch) ==
    [a EXCEPT !.delta_contrib = FAdd(@, FAbs(ch.delta_change)),
              !.gamma_contrib = FAdd(@, FAbs(ch.gamma_change)),
              !.theta_contrib = FAdd(@, FAbs(ch.theta_change)),
              !.vega_contrib = FAdd(@, FAbs(ch.vega_change))]

\* the path advanced with the theta decay left out of the option value:
\* option_value += delta_change + gamma_change + vega_change
AdvancePathNoDecay(p, ch) ==
    [current_price |-> ch.new_price,
     option_value |-> FAdd(p.option_value,
                           FAdd(FAdd(ch.delta_change, ch.gamma_change),
                                ch.vega_change)),
     this_delta_contrib |-> FAdd(p.this_delta_contrib, ch.delta_change),
     this_gamma_contrib |-> FAdd(p.this_gamma_contrib, ch.gamma_change),
     this_theta_contrib |-> FAdd(p.this_theta_contrib, ch.theta_change),
     this_vega_contrib |-> FAdd(p.this_vega_contrib, ch.vega_change)]

\* lines 231-240: the signed sums, the option value and the price of the path
AdvancePath(p, ch) ==
    [current_price |-> ch.new_price,
     option_value |-> FAdd(p.option_value,
                           FAdd(FAdd(ch.delta_change, ch.gamma_change),
                                FAdd(ch.theta_change, ch.vega_change))),
     this_delta_contrib |-> FAdd(p.this_delta_contrib, ch.delta_change),
     this_gamma_contrib |-> FAdd(p.this_gamma_contrib, ch.gamma_change),
     this_theta_contrib |-> FAdd(p.this_theta_contrib, ch.theta_change),
     this_vega_contrib |-> FAdd(p.this_vega_contrib, ch.vega_change)]

\* the exit price with a tie treated as a sale: option_value >= initial_value
ExitPriceSaleOnTie(option, use_realistic, option_value, initial_value) ==
    IF use_realistic
    THEN IF FGe(option_value, initial_value)
         THEN FSub(option_value, option["slippage"])
         ELSE FAdd(option_value, option["slippage"])
    ELSE option_value

\* lines 243-251: the exit price
ExitPrice(option, use_realistic, option_value, initial_value) ==
    IF use_realistic
    THEN IF FGt(option_value, initial_value)
         THEN FSub(option_value, option["slippage"])
         ELSE FAdd(option_value, option["slippage"])
    ELSE option_value

\* a return of exactly 0 counted as a win: return_value >= 0
TrackReturnWinOnZero(a, return_value) ==
    [a EXCEPT !.returns = Append(@, return_value),
              !.win_count = IF FGe(return_value, Zero) THEN @ + 1 ELSE @,
              !.best_case = BestOf(@, return_value)]

\* lines 258-268: the results of the path are tracked
TrackReturn(a, return_value) ==
    [a EXCEPT !.returns = Append(@, return_value),
              !.win_count = IF FGt(return_value, Zero) THEN @ + 1 ELSE @,
              !.best_case = BestOf(@, return_value)]

AppendDetail(d, return_value, p) ==
    [returns |-> Append(d.returns, return_value),
     delta_contributions |-> Append(d.delta_contributions, p.this_delta_contrib),
     gamma_contributions |-> Append(d.gamma_contributions, p.this_gamma_contrib),
     theta_contributions |-> Append(d.theta_contributions, p.this_theta_contrib),
     vega_contributions |-> Append(d.vega_contributions, p.this_vega_contrib)]

RECURSIVE SumSeq(_)
\* sum(returns)
SumSeq(s) == IF s = <<>> THEN Zero ELSE FAdd(SumSeq(Tail(s)), Head(s))

\* the order of the keys of factor_contribs
FactorNames == <<"Delta", "Gamma", "Theta", "Vega">>

RECURSIVE LastMax(_, _, _)
\* the last key whose value is the largest: >= where max() uses >
LastMax(f, i, best) ==
    IF i > Len(FactorNames) THEN best
    ELSE LastMax(f, i + 1,
                 IF FGe(f[FactorNames[i]], f[best]) THEN FactorNames[i] ELSE best)

RECURSIVE FirstMax(_, _, _)
\* max(factor_contribs.items(), key=lambda x: x[1])[0]: the first key, in
\* insertion order from position i on, whose value is the largest
FirstMax(f, i, best) ==
    IF i > Len(FactorNames) THEN best
    ELSE FirstMax(f, i + 1,
                  IF FGt(f[FactorNames[i]], f[best]) THEN FactorNames[i] ELSE best)

\* lines 286-292: the shares of the four unsigned totals
FactorContribs(a) ==
    LET total_contrib == FAdd(FAdd(a.delta_contrib, a.gamma_contrib),
                              FAdd(a.theta_contrib, a.vega_contrib))
        share(x) == IF FGt(total_contrib, Zero) THEN FDiv(x, total_contrib) ELSE Zero
    IN  [Delta |-> share(a.delta_contrib), Gamma |-> share(a.gamma_contrib),
         Theta |-> share(a.theta_contrib), Vega |-> share(a.vega_contrib)]

\* the score attached to the dict too, as add_option does it
ScoreAndAttach(option, index) ==
    LET r == calculate_results(option, index)
    IN  [r EXCEPT !.option = SetItem(SetItem(r.option, "formula", r.formula),
                                     "result", r.result)]

\* lines 299-302: the initial score from the analyzer tab; the dict handed to
\* calculate_results is the element of options_data itself
ScoreForSimulation(option, index) == calculate_results(option, index)

\* what a division by zero leaves: no value
ZeroDivisionError == <<0, 0, 0>>

\* option_result with the guard of avg_return_pct written initial_value >= 0
OptionResultPctGuardNonNegative(option, a, score) ==
    LET initial_value == InitialValue(option)
        n == Len(a.returns)
        avg_return == IF n > 0 THEN FDiv(SumSeq(a.returns), Rat(n, 1)) ELSE Zero
        avg_return_pct ==
            IF n > 0 /\ FGe(initial_value, Zero)
            THEN IF initial_value = Zero THEN ZeroDivisionError
                 ELSE FMul(FDiv(avg_return, initial_value), Rat(100, 1))
            ELSE Zero
        win_rate == IF n > 0 THEN FMul(Rat(a.win_count, n), Rat(100, 1)) ELSE Zero
        factor_contribs == FactorContribs(a)
    IN  [strike |-> option["strike"],
         initial_score |-> score,
         avg_return |-> avg_return,
         avg_return_pct |-> avg_return_pct,
         win_rate |-> win_rate,
         best_case |-> a.best_case,
         primary_factor |-> FirstMax(factor_contribs, 2, FactorNames[1]),
         factor_contributions |-> factor_contribs]

\* lines 275-314: option_result for a contract whose paths are done
OptionResult(option, a, score) ==
    LET initial_value == InitialValue(option)
        n == Len(a.returns)
        avg_return == IF n > 0 THEN FDiv(SumSeq(a.returns), Rat(n, 1)) ELSE Zero
        avg_return_pct ==
            IF n > 0 /\ FGt(initial_value, Zero)
            THEN FMul(FDiv(avg_return, initial_value), Rat(100, 1)) ELSE Zero
        win_rate == IF n > 0 THEN FMul(Rat(a.win_count, n), Rat(100, 1)) ELSE Zero
        factor_contribs == FactorContribs(a)
    IN  [strike |-> option["strike"],
         initial_score |-> score,
         avg_return |-> avg_return,
         avg_return_pct |-> avg_return_pct,
         win_rate |-> win_rate,
         best_case |-> a.best_case,
         primary_factor |-> FirstMax(factor_contribs, 2, FactorNames[1]),
         factor_contributions |-> factor_contribs]

RECURSIVE InsertDescBeforeTies(_, _)
\* x put in front of the elements whose avg_return is equal: > where the
\* stable sort keeps the earlier element first
InsertDescBeforeTies(s, x) ==
    IF s = <<>> THEN <<x>>
    ELSE IF FGt(Head(s).avg_return, x.avg_return)
         THEN <<Head(s)>> \o InsertDescBeforeTies(Tail(s), x)
         ELSE <<x>> \o s

RECURSIVE InsertDesc(_, _)
\* x put into the list s, sorted by avg_return descending, behind every
\* element whose avg_return is not smaller
InsertDesc(s, x) ==
    IF s = <<>> THEN <<x>>
    ELSE IF FGe(Head(s).avg_return, x.avg_return)
         THEN <<Head(s)>> \o InsertDesc(Tail(s), x)
         ELSE <<x>> \o s

RECURSIVE SortDesc(_)
\* self.sim_results.sort(key=lambda x: x["avg_return"], reverse=True): stable
SortDesc(s) ==
    IF s = <<>> THEN <<>>
    ELSE InsertDesc(SortDesc(SubSeq(s, 1, Len(s) - 1)), s[Len(s)])

(***************************************************************************)
(* The loops of one contract as a function of the draws they consume.      *)
(***************************************************************************)
RECURSIVE RunDays(_, _, _, _, _)
\* lines 207-240: the day loop of one path over its draws <<Z, Z'>>
RunDays(option, c, p, a, draws) ==
    IF draws = <<>> THEN [path |-> p, acc |-> a]
    ELSE LET ch == DayChanges(option, c, p.current_price, draws[1][1], draws[1][2])
         IN  RunDays(option, c, AdvancePath(p, ch), TrackTotals(a, ch), Tail(draws))

\* lines 197-268: one path, from its fresh state to its tracked return
RunPath(option, c, a, d, draws) ==
    LET initial_value == InitialValue(option)
        r == RunDays(option, c, FreshPath(c.stock_price, initial_value), a, draws)
        exit_price == ExitPrice(option, c.use_realistic, r.path.option_value,
                                initial_value)
        return_value == FSub(exit_price, initial_value)
    IN  [acc |-> TrackReturn(r.acc, return_value),
         detail |-> AppendDetail(d, return_value, r.path)]

RECURSIVE RunPaths(_, _, _, _, _)
\* lines 190-273: the path loop over the draw blocks of the paths
RunPaths(option, c, a, d, blocks) ==
    IF blocks = <<>> THEN [acc |-> a, detail |-> d]
    ELSE LET r == RunPath(option, c, a, d, blocks[1])
         IN  RunPaths(option, c, r.acc, r.detail, Tail(blocks))

(***************************************************************************)
(* run_simulation of quant_options_alpha_analyzer.py, not cancelled, as a  *)
(* function of its inputs and of the draws it consumes.  Its path and day  *)
(* loops (lines 1006-1091) are those of simulation_tab.py (lines 190-273)  *)
(* statement for statement, and its calculate_results is the same          *)
(* function; the summary (lines 1093-1130) is its own.                     *)
(***************************************************************************)
\* lines 1093-1130: the summary of one contract
MonoOptionResult(option, a, score, num_sims) ==
    LET initial_value == InitialValue(option)
        avg_return == FDiv(SumSeq(a.returns), Rat(num_sims, 1))
        factors == [Delta |-> a.delta_contrib, Gamma |-> a.gamma_contrib,
                    Theta |-> a.theta_contrib, Vega |-> a.vega_contrib]
        best_case ==
            IF a.best_case = NegInf
            THEN (IF a.returns # <<>> THEN a.returns[1] ELSE Zero)
            ELSE a.best_case
    IN  [strike |-> option["strike"],
         initial_score |-> score,
         avg_return |-> avg_return,
         avg_return_pct |-> IF FGt(initial_value, Zero)
                            THEN FMul(FDiv(avg_return, initial_value), Rat(100, 1))
                            ELSE Zero,
         win_rate |-> FMul(Rat(a.win_count, num_sims), Rat(100, 1)),
         best_case |-> best_case,
         primary_factor |-> FirstMax(factors, 2, FactorNames[1]),
         factor_contributions |-> factors]

\* the draws of the k-th path of the i-th contract, of h days each, out of
\* the draws of a run with n paths per contract
DrawBlock(draws, n, h, i, k) ==
    SubSeq(draws, ((i - 1) * n + (k - 1)) * h + 1, ((i - 1) * n + k) * h)

RECURSIVE MonoDetail(_, _, _, _)
\* line 1133 for the contracts i .. len(options_data): the detail dict
MonoDetail(options, c, draws, i) ==
    IF i = 0 THEN EmptyDict
    ELSE SetItem(MonoDetail(options, c, draws, i - 1), options[i]["strike"],
                 RunPaths(options[i], c, FreshAcc, FreshDetail,
                          [k \in 1 .. c.num_sims |->
                              DrawBlock(draws, c.num_sims, c.holding_period, i, k)]).detail)

\* lines 939-1149: what the run stores
mono_run_simulation(options, c, index, draws) ==
    LET summary(i) ==
            LET r == RunPaths(options[i], c, FreshAcc, FreshDetail,
                              [k \in 1 .. c.num_sims |->
                                  DrawBlock(draws, c.num_sims, c.holding_period, i, k)])
            IN  MonoOptionResult(options[i], r.acc,
                                 calculate_results(options[i], index).result,
                                 c.num_sims)
    IN  [sim_results |-> SortDesc([i \in 1 .. Len(options) |-> summary(i)]),
         simulation_detailed_results |-> MonoDetail(options, c, draws, Len(options))]

RECURSIVE InsertByResult(_, _)
\* x put behind the elements whose result is greater or equal
InsertByResult(s, x) ==
    IF s = <<>> THEN <<x>>
    ELSE IF FGe(s[1]["result"], x["result"])
         THEN <<s[1]>> \o InsertByResult(Tail(s), x)
         ELSE <<x>> \o s
RECURSIVE RankByResult(_)
\* options_to_display.sort(key=lambda x: x["result"], reverse=True): a stable
\* sort, elements with equal results keep their order
RankByResult(s) ==
    IF s = <<>> THEN <<>>
    ELSE InsertByResult(RankByResult(SubSeq(s, 1, Len(s) - 1)), s[Len(s)])

\* AnalyzerTab.update_results: the rows of the table after the call, with the
\* sort indicator of the header on column 0, where it is until a header
\* is clicked
update_results(options, auto_rank) ==
    IF options = <<>> THEN <<>>
    ELSE IF auto_rank THEN RankByResult(options) ELSE options

\* simulation_visualizer.py lines 139-140: the detail shown for a summary is
\* simulation_detailed_results.get(summary['strike'], None)
DetailFor(summary) ==
    IF summary.strike \in DOMAIN simulation_detailed_results
    THEN simulation_detailed_results[summary.strike] ELSE <<"None">>

(***************************************************************************)
(* Inputs.                                                                 *)
(***************************************************************************)
\* a dict of the eleven input fields, as add_option, import_csv and
\* load_example_contracts build it
Option(strike, delta, gamma, theta, vega, bid, ask, slippage, underlying, atr, iv) ==
    [strike |-> strike, delta |-> delta, gamma |-> gamma, theta |-> theta,
     vega |-> vega, bid |-> bid, ask |-> ask, slippage |-> slippage,
     underlying |-> underlying, atr |-> atr, iv |-> iv]

\* the contracts offered to add_option: the 100 strike of the example
\* contracts (vega rounded to 0.1), a 105 strike whose Greeks and quotes
\* are all zero, and a 110 strike with the Greeks, quotes and slippage of the
\* 100 strike but another underlying price, ATR and IV
Catalog ==
    { Option(Rat(100, 1), Rat(1, 2), Rat(1, 20), Rat(-7, 100), Rat(1, 10),
             Rat(49, 10), Rat(51, 10), Rat(1, 50), Rat(100, 1), Rat(5, 2), Rat(31, 1)),
      Option(Rat(105, 1), Zero, Zero, Zero, Zero,
             Zero, Zero, Rat(1, 50), Rat(100, 1), Zero, Zero),
      Option(Rat(110, 1), Rat(1, 2), Rat(1, 20), Rat(-7, 100), Rat(1, 10),
             Rat(49, 10), Rat(51, 10), Rat(1, 50), Rat(50, 1), Rat(1, 1), Rat(20, 1)) }

\* equation_selector has four items
Equations == 0 .. 3
\* "Number of Simulations" and "Holding Period" as entered, within the widget
\* ranges
SimTrades == MinPaths .. (IF MaxSteps < WidgetMaxPaths THEN MaxSteps ELSE WidgetMaxPaths)
SimHolding == MinDays .. (IF MaxSteps < WidgetMaxDays THEN MaxSteps ELSE WidgetMaxDays)
\* "Starting Stock Price" and "Assumed Volatility (%)" as entered
StockPrices == {Rat(64, 1)}
Volatilities == {Rat(200, 1)}
\* The values np.random.normal() delivers in the model.  A price-move draw is
\* -sqrt(252)/8, 0 or sqrt(252)/8 (about -1.98, 0, 1.98): with the volatility
\* of 200% a day's price change is then -1/4, 0 or 1/4 of the price, a
\* rational.  An IV-shock draw is 0 or 1.
DrawDown == Num(0, -1, 8)
DrawUp == Num(0, 1, 8)
One == Rat(1, 1)
\* the two draws of a day, <<Z, Z'>>: a quiet day, a move up or down with no
\* IV shock, and a move down with an IV shock
DrawPairs == {<<Zero, Zero>>, <<DrawUp, Zero>>, <<DrawDown, Zero>>, <<DrawDown, One>>}

(***************************************************************************)
(* History kept beside the program state.                                  *)
(***************************************************************************)
NoRun == [none |-> TRUE]

InitObs ==
    [run_no |-> 0,            \* runs started so far
     outcome |-> "none",      \* how the last run ended
     steps |-> 0,             \* simulated days and metric changes so far
     draws |-> <<>>,          \* the draws of the current run, in order
     samples |-> <<>>,        \* detailed_data of each finished contract of the run
     days |-> <<>>,           \* the days of the current contract: draws and changes
     contract_days |-> <<>>,  \* the days of each finished contract of the run
     start_options |-> <<>>,  \* options_data when the run started
     start_results |-> NoResults, \* self.sim_results when the run started
     click_at |-> 0,          \* sim_counter when Cancel was clicked, 0: not clicked
     results_run |-> 0,       \* the run that produced self.sim_results
     detail_run |-> EmptyDict,\* per strike, the run that produced its detail
     entries |-> 0,           \* values typed into the simulation widgets so far
     out_of_range |-> {},     \* the typed values that lay outside the widget's range
     deleted |-> NoRun,       \* the last call of delete_selected_option
     plotted |-> NoRun,       \* the last call of _plot_curve
     last |-> NoRun,          \* the last completed run
     prev |-> NoRun]          \* the completed run before it

(***************************************************************************)
(* The input widgets of SimulationTab (setup_ui).                          *)
(***************************************************************************)
\* int(x) of Python: truncation toward zero
PyInt(x) == IF x[1] >= 0 THEN x[1] \div x[3] ELSE -((-x[1]) \div x[3])

\* a spin box that takes whatever is typed
SpinBoxUnbounded(v, lo, hi) == v
\* QDoubleSpinBox with setRange(lo, hi): a value outside the range is
\* replaced by the nearest bound
SpinBoxValue(v, lo, hi) ==
    IF FGt(lo, v) THEN lo ELSE IF FGt(v, hi) THEN hi ELSE v

\* setRange of the four spin boxes
SimTradesRange == <<Rat(MinPaths, 1), Rat(WidgetMaxPaths, 1)>>
SimPriceRange == <<Rat(1, 1), Rat(10000, 1)>>
SimVolRange == <<Rat(1, 1), Rat(200, 1)>>
SimHoldingRange == <<Rat(MinDays, 1), Rat(WidgetMaxDays, 1)>>

\* setValue and setChecked in setup_ui
SimWidgetsConstructed ==
    [sim_trades |-> Rat(10, 1), sim_price |-> Rat(100, 1),
     sim_vol |-> Rat(30, 1), sim_holding |-> Rat(1, 1), sim_realistic |-> TRUE]

(***************************************************************************)
(* HedgeCalculatorDialog.                                                  *)
(***************************************************************************)
\* round(x) of Python: to the nearest integer, a tie to the even one
PyRound(x) ==
    LET f == x[1] \div x[3]
        r == 2 * (x[1] - f * x[3])
    IN  IF r < x[3] THEN f
        ELSE IF r > x[3] THEN f + 1
        ELSE IF f % 2 = 0 THEN f ELSE f + 1

\* setRange of the spin boxes of the dialog
HedgeRanges ==
    [quantity |-> <<Rat(1, 1), Rat(10000, 1)>>,
     delta |-> <<Rat(-1, 1), Rat(1, 1)>>,
     gamma |-> <<Zero, Rat(1, 2)>>,
     stock_price |-> <<Rat(1, 1), Rat(10000, 1)>>,
     price_move |-> <<Rat(-50, 1), Rat(50, 1)>>,
     hedge_delta |-> <<Rat(-1, 1), Rat(1, 1)>>,
     hedge_gamma |-> <<Zero, Rat(1, 2)>>,
     hedge_ratio |-> <<Rat(1, 10), Rat(100, 1)>>]

\* the items of position_type
PositionTypes ==
    {"Long Call", "Long Put", "Short Call", "Short Put", "Long Stock", "Short Stock"}

\* what the input widgets hold after setup_ui
HedgeWidgetsConstructed ==
    [position_type |-> "Long Call", quantity |-> Rat(1, 1), delta |-> Rat(1, 2),
     gamma |-> Rat(1, 20), stock_price |-> Rat(100, 1), price_move |-> Rat(5, 1),
     hedge_ratio |-> Rat(2, 1), hedge_delta |-> Rat(-1, 2),
     hedge_gamma |-> Rat(1, 50), full_delta_hedge |-> TRUE, hedge_preset |-> 0]

\* f"{abs(n):,d} {'Short' if n < 0 else 'Long'}"
Quantity(n) == [qty |-> IAbs(n), side |-> IF n < 0 THEN "Short" ELSE "Long"]
\* a label that shows "N/A"
NotAvailable == [qty |-> 0, side |-> "N/A"]
\* the recommended-hedge label before the first calculation
NoText == [kind |-> "", shares |-> NotAvailable, contracts |-> NotAvailable]

\* lines 389-408: the exposure of the position
PositionExposure(w) ==
    LET position_delta_sign ==
            IF w.position_type \in {"Short Call", "Short Put", "Short Stock"}
            THEN Rat(-1, 1) ELSE Rat(1, 1)
        contract_delta ==
            IF w.position_type \in {"Long Put", "Short Put"} THEN FNeg(w.delta)
            ELSE w.delta
        per_contract == FMul(FMul(position_delta_sign, w.quantity), Rat(100, 1))
    IN  IF w.position_type \in {"Long Stock", "Short Stock"}
        THEN [delta |-> per_contract, gamma |-> Zero]
        ELSE [delta |-> FMul(FMul(FMul(position_delta_sign, contract_delta),
                                  w.quantity), Rat(100, 1)),
              gamma |-> FMul(FMul(FMul(position_delta_sign, w.gamma),
                                  w.quantity), Rat(100, 1))]

\* the condition of lines 442 and 519
NeutralHedgeExists(position_delta, position_gamma, hedge_delta, hedge_gamma) ==
    /\ position_delta # Zero
    /\ position_gamma # Zero
    /\ hedge_delta # Zero
    /\ hedge_gamma # Zero

\* lines 447-456 and 524-533: the delta-gamma neutral hedge
NeutralHedge(position_delta, position_gamma, hedge_delta, hedge_gamma) ==
    LET option_contracts == FDiv(FNeg(position_gamma), FMul(hedge_gamma, Rat(100, 1)))
        remaining_delta ==
            FAdd(position_delta,
                 FMul(FMul(option_contracts, hedge_delta), Rat(100, 1)))
    IN  [stock_shares |-> PyInt(FNeg(remaining_delta)),
         option_contracts |-> PyRound(option_contracts)]

\* lines 484-541: the rows of the hedge table, given the option-only
\* quantity (line 496), the condition of line 519 and the neutral hedge
HedgeRows(position_delta, option_qty, bound, n) ==
    (IF position_delta # Zero
     THEN <<[type |-> "Stock Shares",
             shares |-> Quantity(-PyInt(position_delta)),
             contracts |-> NotAvailable]>>
     ELSE <<>>)
    \o (IF position_delta # Zero /\ option_qty # 0
        THEN <<[type |-> "Options Only", shares |-> NotAvailable,
                contracts |-> Quantity(option_qty)]>>
        ELSE <<>>)
    \o (IF position_delta # Zero
        THEN <<[type |-> "Partial Stock Hedge",
                shares |-> Quantity(-PyInt(FMul(position_delta, Rat(1, 2)))),
                contracts |-> NotAvailable]>>
        ELSE <<>>)
    \o (IF bound /\ (n.option_contracts # 0 \/ n.stock_shares # 0)
        THEN <<[type |-> "Delta-Gamma Neutral",
                shares |-> Quantity(n.stock_shares),
                contracts |-> Quantity(n.option_contracts)]>>
        ELSE <<>>)

\* lines 551-565: the text of a delta hedge
DeltaHedgeText(kind, position_delta) ==
    [kind |-> kind,
     shares |-> [qty |-> IAbs(PyInt(position_delta)), side |-> ""],
     contracts |-> NotAvailable]

\* lines 545-585: the recommendation.  stock_shares and option_contracts are
\* bound by lines 532-533 only; reading them unbound at line 547 raises
\* UnboundLocalError, which leaves the table cleared (line 482) and the text
\* as it was.
RecommendedHedge(large_delta, large_gamma, position_delta, bound, n, hedges, old_text) ==
    IF large_delta /\ large_gamma
    THEN IF bound
         THEN [raised |-> "none", hedge_table |-> hedges,
               recommended_hedge |->
                   [kind |-> "Delta-Gamma Neutral Hedge",
                    shares |-> Quantity(n.stock_shares),
                    contracts |-> Quantity(n.option_contracts)]]
         ELSE [raised |-> "UnboundLocalError", hedge_table |-> <<>>,
               recommended_hedge |-> old_text]
    ELSE [raised |-> "none", hedge_table |-> hedges,
          recommended_hedge |->
              IF large_delta
              THEN DeltaHedgeText("Delta Hedge: opposite direction", position_delta)
              ELSE IF FGt(position_delta, Zero)
              THEN DeltaHedgeText("Delta Hedge: short", position_delta)
              ELSE IF FGt(Zero, position_delta)
              THEN DeltaHedgeText("Delta Hedge: long", position_delta)
              ELSE DeltaHedgeText("Position is already delta neutral", position_delta)]

\* lines 484-585 with the neutral hedge and the condition of line 519 computed
HedgeOptionsWith(position_delta, position_gamma, hedge_ratio, bound, n, old_text) ==
    RecommendedHedge(FGt(FAbs(position_delta), Rat(100, 1)),
                     FGt(FAbs(position_gamma), Rat(50, 1)),
                     position_delta, bound, n,
                     HedgeRows(position_delta,
                               -PyInt(FDiv(position_delta, FMul(hedge_ratio, Rat(100, 1)))),
                               bound, n),
                     old_text)

\* calculate_hedge_options (lines 469-585): the rows of the hedge table and
\* the recommended-hedge text
calculate_hedge_options(position_delta, position_gamma, hedge_ratio, hedge_delta, hedge_gamma, old_text) ==
    HedgeOptionsWith(position_delta, position_gamma, hedge_ratio,
                     NeutralHedgeExists(position_delta, position_gamma,
                                        hedge_delta, hedge_gamma),
                     NeutralHedge(position_delta, position_gamma,
                                  hedge_delta, hedge_gamma),
                     old_text)

\* lines 410-467: the labels and the table, given the exposure, the price
\* move in dollars, the neutral hedge and the outcome of
\* calculate_hedge_options
Displayed(w, e, price_move, bound, n, t) ==
    [delta_exposure |-> e.delta,
     gamma_exposure |-> e.gamma,
     expected_pl |-> FAdd(FMul(e.delta, price_move),
                          FMul(FMul(Rat(1, 2), e.gamma), FMul(price_move, price_move))),
     delta_hedge_shares |->
         Quantity(IF w.full_delta_hedge THEN -PyInt(e.delta)
                  ELSE -PyInt(FMul(e.delta, Rat(1, 2)))),
     delta_coverage |-> IF w.full_delta_hedge THEN "100%" ELSE "50%",
     delta_gamma_hedge_shares |->
         IF bound THEN Quantity(n.stock_shares) ELSE NotAvailable,
     delta_gamma_hedge_options |->
         IF bound THEN Quantity(n.option_contracts) ELSE NotAvailable,
     hedge_table |-> t.hedge_table,
     recommended_hedge |-> t.recommended_hedge,
     raised |-> t.raised]

\* lines 410-467 for the exposure e of the position
DisplayedFor(w, e, old_text) ==
    Displayed(w, e,
              FMul(w.stock_price, FDiv(w.price_move, Rat(100, 1))),
              NeutralHedgeExists(e.delta, e.gamma, w.hedge_delta, w.hedge_gamma),
              NeutralHedge(e.delta, e.gamma, w.hedge_delta, w.hedge_gamma),
              calculate_hedge_options(e.delta, e.gamma, w.hedge_ratio,
                                      w.hedge_delta, w.hedge_gamma, old_text))

\* update_calculations (lines 376-467): what the dialog displays after the
\* call, given what its widgets hold and the text it displayed before
update_calculations(w, old_text) == DisplayedFor(w, PositionExposure(w), old_text)

\* the dialog after __init__: setup_ui ends with update_calculations
HedgeConstructed ==
    [w |-> HedgeWidgetsConstructed,
     out |-> update_calculations(HedgeWidgetsConstructed, NoText)]

(***************************************************************************)
(* Initial state: both tabs as constructed.                                *)
(***************************************************************************)
IdleLocals ==
    /\ pc = "idle"
    /\ cfg = [num_sims |-> MinPaths, stock_price |-> Rat(64, 1),
              volatility |-> Rat(2, 1), holding_period |-> MinDays,
              use_realistic |-> TRUE]
    /\ canceled = FALSE
    /\ option_idx = 0 /\ sim_idx = 0 /\ day = 0 /\ sim_counter = 0
    /\ local_results = <<>>
    /\ acc = FreshAcc
    /\ detailed_data = FreshDetail
    /\ path = FreshPath(Zero, Zero)
    /\ sim_widgets = SimWidgetsConstructed
    /\ auto_rank_checkbox = TRUE
    /\ results_table = <<>>
    /\ hedge = HedgeConstructed
    /\ obs = InitObs

Init ==
    /\ equation_selector = 0
    /\ options_data = <<>>
    /\ contract = EmptyDict
    /\ call = NoRun
    /\ sim_results = NoResults
    /\ simulation_detailed_results = EmptyDict
    /\ IdleLocals

(***************************************************************************)
(* AnalyzerTab operations.                                                 *)
(***************************************************************************)
\* add_option (and a row of import_csv, load_example_contracts): the dict is
\* scored, formula and result are attached, and it is appended.  The model
\* enters the contracts before the first simulation is run.
AddOption(raw) ==
    /\ pc = "idle"
    /\ Len(options_data) < MaxContracts
    /\ obs.run_no = 0
    /\ LET option == Scored(calculate_results(raw, equation_selector))
       IN  /\ options_data' = Append(options_data, option)
           /\ results_table' = update_results(Append(options_data, option),
                                               auto_rank_checkbox)
    /\ UNCHANGED <<hedgeVars, simWidgetVars, auto_rank_checkbox, equation_selector, scoreVars,
                   storedVars, runVars>>

\* the user picks another metric; update_results redraws the table from the
\* stored formula and result
SelectEquation(index) ==
    /\ pc = "idle"
    /\ index # equation_selector
    /\ obs.steps < MaxSteps
    /\ equation_selector' = index
    /\ results_table' = update_results(options_data, auto_rank_checkbox)
    /\ obs' = [obs EXCEPT !.steps = @ + 1]
    /\ UNCHANGED <<hedgeVars, simWidgetVars, auto_rank_checkbox, options_data, scoreVars,
                   storedVars, localVars>>

(***************************************************************************)
(* SimulationTab.run_simulation, cut at its loop heads.                    *)
(***************************************************************************)
CurrentOption == options_data[option_idx + 1]

\* lines 119-149: the parameters are read from the widgets, the progress
\* dialog is created, the stored detail is cleared.  The parameters of the
\* action are what the widgets hold when "Run Simulation" is clicked.
StartRun(num_sims, holding_period, use_realistic, stock_price, vol_pct) ==
    /\ pc = "idle"
    /\ options_data # <<>>
    /\ obs.steps + Len(options_data) * num_sims * holding_period <= MaxSteps
    /\ cfg' = [num_sims |-> num_sims, stock_price |-> stock_price,
               volatility |-> FDiv(vol_pct, Rat(100, 1)),
               holding_period |-> holding_period,
               use_realistic |-> use_realistic]
    /\ canceled' = FALSE
    /\ local_results' = <<>>
    /\ simulation_detailed_results' = EmptyDict
    /\ sim_counter' = 0
    /\ option_idx' = 0
    /\ pc' = "contract"
    /\ obs' = [obs EXCEPT !.run_no = @ + 1, !.outcome = "running",
                          !.draws = <<>>, !.samples = <<>>,
                          !.days = <<>>, !.contract_days = <<>>,
                          !.start_options = options_data,
                          !.start_results = sim_results,
                          !.click_at = 0, !.detail_run = EmptyDict]
    /\ sim_widgets' = [sim_trades |-> Rat(num_sims, 1), sim_price |-> stock_price,
                       sim_vol |-> vol_pct, sim_holding |-> Rat(holding_period, 1),
                       sim_realistic |-> use_realistic]
    /\ UNCHANGED <<hedgeVars, tableVars, analyzerVars, scoreVars, sim_results, sim_idx, day,
                   acc, detailed_data, path>>

\* the locals of one contract set up with win_count left as it was
BeginContractKeepWins ==
    /\ pc = "contract"
    /\ acc' = [FreshAcc EXCEPT !.win_count = acc.win_count]
    /\ detailed_data' = FreshDetail
    /\ sim_idx' = 0
    /\ pc' = IF PathLoopContinues(0, cfg.num_sims) THEN "path" ELSE "summary"
    /\ UNCHANGED <<widgetVars, analyzerVars, scoreVars, storedVars, cfg, canceled, option_idx,
                   day, sim_counter, local_results, path, obs>>

\* lines 152-187: the locals of one contract are set up
BeginContract ==
    /\ pc = "contract"
    /\ acc' = FreshAcc
    /\ detailed_data' = FreshDetail
    /\ sim_idx' = 0
    /\ pc' = IF PathLoopContinues(0, cfg.num_sims) THEN "path" ELSE "summary"
    /\ UNCHANGED <<widgetVars, analyzerVars, scoreVars, storedVars, cfg, canceled, option_idx,
                   day, sim_counter, local_results, path, obs>>

\* progress.wasCanceled() at the head of the path loop (line 192)
CancelObserved == canceled

\* the summaries gathered so far stored on the way out
StoredPartial == local_results
\* self.sim_results when run_simulation returns at line 194
StoredAfterCancel == sim_results

\* lines 190-194 with the cancel seen: the message box, then return
CancelReturn ==
    /\ pc = "path"
    /\ CancelObserved
    /\ pc' = "idle"
    /\ sim_results' = StoredAfterCancel
    /\ local_results' = <<>>
    /\ obs' = [obs EXCEPT !.outcome = "cancelled"]
    /\ UNCHANGED <<widgetVars, analyzerVars, scoreVars, simulation_detailed_results, cfg,
                   canceled, option_idx, sim_idx, day, sim_counter, acc,
                   detailed_data, path>>

\* lines 190-204 with no cancel seen: the path starts
BeginPath ==
    /\ pc = "path"
    /\ ~CancelObserved
    /\ path' = FreshPath(cfg.stock_price, InitialValue(CurrentOption))
    /\ day' = 0
    /\ pc' = IF DayLoopContinues(0, cfg.holding_period) THEN "day" ELSE "exit"
    /\ UNCHANGED <<widgetVars, analyzerVars, scoreVars, storedVars, cfg, canceled, option_idx,
                   sim_idx, sim_counter, local_results, acc, detailed_data, obs>>

\* one day with the draws taken in the other order: the first for the IV
\* shock, the second for the price move
DayStepIvFirst(z, z2) ==
    /\ pc = "day"
    /\ LET ch == DayChanges(CurrentOption, cfg, path.current_price, z2, z)
       IN  /\ acc' = TrackTotals(acc, ch)
           /\ path' = AdvancePath(path, ch)
    /\ day' = day + 1
    /\ pc' = IF DayLoopContinues(day + 1, cfg.holding_period) THEN "day" ELSE "exit"
    /\ obs' = [obs EXCEPT !.steps = @ + 1, !.draws = Append(@, <<z, z2>>),
                          !.days = Append(@, [z |-> z, z2 |-> z2,
                              change |-> DayChanges(CurrentOption, cfg,
                                                    path.current_price, z2, z)])]
    /\ UNCHANGED <<widgetVars, analyzerVars, scoreVars, storedVars, cfg, canceled, option_idx,
                   sim_idx, sim_counter, local_results, detailed_data>>

\* lines 207-240: one day, with its two draws
DayStep(z, z2) ==
    /\ pc = "day"
    /\ LET ch == DayChanges(CurrentOption, cfg, path.current_price, z, z2)
       IN  /\ acc' = TrackTotals(acc, ch)
           /\ path' = AdvancePath(path, ch)
    /\ day' = day + 1
    /\ pc' = IF DayLoopContinues(day + 1, cfg.holding_period) THEN "day" ELSE "exit"
    /\ obs' = [obs EXCEPT !.steps = @ + 1, !.draws = Append(@, <<z, z2>>),
                          !.days = Append(@, [z |-> z, z2 |-> z2,
                              change |-> DayChanges(CurrentOption, cfg,
                                                    path.current_price, z, z2)])]
    /\ UNCHANGED <<widgetVars, analyzerVars, scoreVars, storedVars, cfg, canceled, option_idx,
                   sim_idx, sim_counter, local_results, detailed_data>>

\* the end of a path with the progress value counted per contract:
\* progress.setValue(sim_idx + 1)
EndPathProgressPerContract(click) ==
    /\ pc = "exit"
    /\ LET initial_value == InitialValue(CurrentOption)
           exit_price == ExitPrice(CurrentOption, cfg.use_realistic,
                                   path.option_value, initial_value)
           return_value == FSub(exit_price, initial_value)
       IN  /\ acc' = TrackReturn(acc, return_value)
           /\ detailed_data' = AppendDetail(detailed_data, return_value, path)
    /\ sim_counter' = sim_idx + 1
    /\ canceled' = (canceled \/ click)
    /\ sim_idx' = sim_idx + 1
    /\ pc' = IF PathLoopContinues(sim_idx + 1, cfg.num_sims) THEN "path" ELSE "summary"
    /\ obs' = [obs EXCEPT !.click_at = IF click /\ @ = 0 THEN sim_counter + 1 ELSE @]
    /\ UNCHANGED <<widgetVars, analyzerVars, scoreVars, storedVars, cfg, option_idx, day,
                   local_results, path>>

\* lines 242-273: the exit, the return of the path, the progress update and
\* QApplication.processEvents(), during which a click on Cancel is delivered
EndPath(click) ==
    /\ pc = "exit"
    /\ LET initial_value == InitialValue(CurrentOption)
           exit_price == ExitPrice(CurrentOption, cfg.use_realistic,
                                   path.option_value, initial_value)
           return_value == FSub(exit_price, initial_value)
       IN  /\ acc' = TrackReturn(acc, return_value)
           /\ detailed_data' = AppendDetail(detailed_data, return_value, path)
    /\ sim_counter' = sim_counter + 1
    /\ canceled' = (canceled \/ click)
    /\ sim_idx' = sim_idx + 1
    /\ pc' = IF PathLoopContinues(sim_idx + 1, cfg.num_sims) THEN "path" ELSE "summary"
    /\ obs' = [obs EXCEPT !.click_at = IF click /\ @ = 0 THEN sim_counter + 1 ELSE @]
    /\ UNCHANGED <<widgetVars, analyzerVars, scoreVars, storedVars, cfg, option_idx, day,
                   local_results, path>>

\* lines 275-320: the summary of the contract is appended and its detail is
\* stored under its strike
EndContract ==
    /\ pc = "summary"
    /\ LET option == CurrentOption
           scored == ScoreForSimulation(option, equation_selector)
           strike == option["strike"]
       IN  /\ options_data' = [options_data EXCEPT ![option_idx + 1] = scored.option]
           /\ local_results' = Append(local_results,
                                      OptionResult(option, acc, scored.result))
           /\ simulation_detailed_results' =
                  SetItem(simulation_detailed_results, strike, detailed_data)
           /\ obs' = [obs EXCEPT !.samples = Append(@, detailed_data),
                                 !.days = <<>>,
                                 !.contract_days = Append(@, obs.days),
                                 !.detail_run = SetItem(@, strike, obs.run_no)]
    /\ option_idx' = option_idx + 1
    /\ pc' = IF option_idx + 1 < Len(options_data) THEN "contract" ELSE "store"
    /\ UNCHANGED <<widgetVars, equation_selector, scoreVars, sim_results, cfg, canceled,
                   sim_idx, day, sim_counter, acc, detailed_data, path>>

\* lines 322-336: the results are stored, and update_results_table (lines
\* 352-358) sorts them in place
FinishRun ==
    /\ pc = "store"
    /\ sim_results' = (IF local_results # <<>> THEN SortDesc(local_results)
                       ELSE local_results)
    /\ pc' = "idle"
    /\ local_results' = <<>>
    /\ obs' = [obs EXCEPT !.outcome = "completed",
                          !.results_run = obs.run_no,
                          !.prev = obs.last,
                          !.last = [options |-> obs.start_options,
                                    cfg |-> cfg,
                                    equation |-> equation_selector,
                                    draws |-> obs.draws,
                                    samples |-> obs.samples,
                                    summaries |-> local_results]]
    /\ UNCHANGED <<widgetVars, analyzerVars, scoreVars, simulation_detailed_results, cfg,
                   canceled, option_idx, sim_idx, day, sim_counter, acc,
                   detailed_data, path>>

Next ==
    \/ \E raw \in Catalog : AddOption(raw)
    \/ \E index \in Equations : SelectEquation(index)
    \/ \E n \in SimTrades, h \in SimHolding, r \in BOOLEAN,
          p \in StockPrices, v \in Volatilities : StartRun(n, h, r, p, v)
    \/ BeginContract
    \/ CancelReturn
    \/ BeginPath
    \/ \E zz \in DrawPairs : DayStep(zz[1], zz[2])
    \/ \E click \in BOOLEAN : EndPath(click)
    \/ EndContract
    \/ FinishRun

Spec == Init /\ [][Next]_vars

(***************************************************************************)
(* The simulation configured through its widgets: values are typed into    *)
(* the spin boxes, also values outside their ranges, and the run reads     *)
(* what the widgets hold.                                                  *)
(***************************************************************************)
\* typed values counted per history
MaxEntries == 2

\* what is typed into "Number of Simulations", "Holding Period (days)" and
\* "Starting Stock Price"
TypedTrades == {Rat(0, 1), Rat(1, 1), Rat(2, 1)}
TypedHolding == {Rat(0, 1), Rat(2, 1)}
TypedPrices == {Rat(-5, 1), Rat(0, 1), Rat(64, 1)}
\* the draws of the configured runs
ConfigDraws == {<<Zero, Zero>>, <<DrawUp, Zero>>}
\* the contract of the configured runs: the 100 strike
ConfigCatalog == {c \in Catalog : c.strike = Rat(100, 1)}

Typed(name, v, range) ==
    [obs EXCEPT !.entries = @ + 1,
                !.out_of_range = IF FGt(range[1], v) \/ FGt(v, range[2])
                                 THEN @ \cup {<<name, v>>} ELSE @]

\* a value typed into sim_trades
SetSimTrades(v) ==
    /\ pc = "idle"
    /\ obs.entries < MaxEntries
    /\ sim_widgets' = [sim_widgets EXCEPT !.sim_trades =
                           SpinBoxValue(v, SimTradesRange[1], SimTradesRange[2])]
    /\ obs' = Typed("sim_trades", v, SimTradesRange)
    /\ UNCHANGED <<hedgeVars, tableVars, analyzerVars, scoreVars, storedVars, localVars>>

\* a value typed into sim_holding
SetSimHolding(v) ==
    /\ pc = "idle"
    /\ obs.entries < MaxEntries
    /\ sim_widgets' = [sim_widgets EXCEPT !.sim_holding =
                           SpinBoxValue(v, SimHoldingRange[1], SimHoldingRange[2])]
    /\ obs' = Typed("sim_holding", v, SimHoldingRange)
    /\ UNCHANGED <<hedgeVars, tableVars, analyzerVars, scoreVars, storedVars, localVars>>

\* a value typed into sim_price
SetSimPrice(v) ==
    /\ pc = "idle"
    /\ obs.entries < MaxEntries
    /\ sim_widgets' = [sim_widgets EXCEPT !.sim_price =
                           SpinBoxValue(v, SimPriceRange[1], SimPriceRange[2])]
    /\ obs' = Typed("sim_price", v, SimPriceRange)
    /\ UNCHANGED <<hedgeVars, tableVars, analyzerVars, scoreVars, storedVars, localVars>>

\* "Run Simulation" clicked: lines 130-134 read the widgets
RunSimulation ==
    StartRun(PyInt(sim_widgets.sim_trades), PyInt(sim_widgets.sim_holding),
             sim_widgets.sim_realistic, sim_widgets.sim_price, sim_widgets.sim_vol)

ConfigNext ==
    \/ \E raw \in ConfigCatalog : AddOption(raw)
    \/ \E v \in TypedTrades : SetSimTrades(v)
    \/ \E v \in TypedHolding : SetSimHolding(v)
    \/ \E v \in TypedPrices : SetSimPrice(v)
    \/ RunSimulation
    \/ BeginContract
    \/ CancelReturn
    \/ BeginPath
    \/ \E zz \in ConfigDraws : DayStep(zz[1], zz[2])
    \/ \E click \in BOOLEAN : EndPath(click)
    \/ EndContract
    \/ FinishRun

SpecConfig == Init /\ [][ConfigNext]_vars

(***************************************************************************)
(* The analyzer on its own: contracts are added and deleted, the metric    *)
(* and the auto-rank box are changed, curves are plotted.                  *)
(***************************************************************************)
\* auto_rank_checkbox toggled: update_results redraws the table
ToggleAutoRank ==
    /\ pc = "idle"
    /\ obs.steps < MaxSteps
    /\ auto_rank_checkbox' = ~auto_rank_checkbox
    /\ results_table' = update_results(options_data, ~auto_rank_checkbox)
    /\ obs' = [obs EXCEPT !.steps = @ + 1]
    /\ UNCHANGED <<hedgeVars, simWidgetVars, analyzerVars, scoreVars, storedVars, localVars>>

\* list.pop(k - 1): the list without its k-th element
Pop(s, k) == SubSeq(s, 1, k - 1) \o SubSeq(s, k + 1, Len(s))

\* delete_selected_option with the table row `row` selected (rows counted
\* from 1) and the answer `reply` to the confirmation: row is used as the
\* index into options_data
DeleteSelectedOption(row, reply) ==
    /\ pc = "idle"
    /\ obs.steps < MaxSteps
    /\ row \in 1 .. Len(results_table)
    /\ LET valid == row <= Len(options_data)
           after == IF valid /\ reply THEN Pop(options_data, row) ELSE options_data
       IN  /\ options_data' = after
           /\ results_table' = IF valid /\ reply
                                THEN update_results(after, auto_rank_checkbox)
                                ELSE results_table
           /\ obs' = [obs EXCEPT !.steps = @ + 1,
                                 !.deleted = [before |-> options_data,
                                              table |-> results_table,
                                              row |-> row, reply |-> reply,
                                              after |-> after]]
    /\ UNCHANGED <<hedgeVars, simWidgetVars, auto_rank_checkbox, equation_selector, scoreVars,
                   storedVars, localVars>>

\* lines 612-615: every contract scored again under the metric of the plot
Rescored(options, score_index) ==
    [k \in 1 .. Len(options) |-> Scored(calculate_results(options[k], score_index))]

\* _plot_curve(canvas, score_index), reached through visualize_curve with a
\* non-empty list: the selector is set to score_index, the contracts are
\* scored again, the selector is set back.  Each setCurrentIndex that
\* changes the index calls update_results.
PlotCurve(score_index) ==
    /\ pc = "idle"
    /\ obs.steps < MaxSteps
    /\ options_data # <<>>
    /\ LET current_idx == equation_selector
           after == Rescored(options_data, score_index)
       IN  /\ options_data' = after
           /\ equation_selector' = current_idx
           /\ results_table' = IF score_index # current_idx
                                THEN update_results(after, auto_rank_checkbox)
                                ELSE results_table
           /\ obs' = [obs EXCEPT !.steps = @ + 1,
                                 !.plotted = [index_before |-> current_idx,
                                              score_index |-> score_index,
                                              before |-> options_data,
                                              index_after |-> current_idx,
                                              after |-> after]]
    /\ UNCHANGED <<hedgeVars, simWidgetVars, auto_rank_checkbox, scoreVars, storedVars, localVars>>

AnalyzerNext ==
    \/ \E raw \in Catalog : AddOption(raw)
    \/ \E index \in Equations : SelectEquation(index)
    \/ ToggleAutoRank
    \/ \E row \in 1 .. MaxContracts, reply \in BOOLEAN : DeleteSelectedOption(row, reply)
    \/ \E index \in Equations : PlotCurve(index)

SpecAnalyzer == Init /\ [][AnalyzerNext]_vars

(***************************************************************************)
(* The hedge calculator on its own: its inputs are edited, and every edit  *)
(* recalculates.                                                           *)
(***************************************************************************)
\* what is typed into the spin boxes of the dialog
HedgeEntries ==
    {<<"quantity", Rat(1, 1)>>, <<"quantity", Rat(11, 1)>>,
     <<"gamma", Zero>>, <<"gamma", Rat(1, 20)>>,
     <<"hedge_delta", Zero>>, <<"hedge_delta", Rat(-1, 2)>>,
     <<"hedge_gamma", Zero>>, <<"hedge_gamma", Rat(1, 50)>>}

\* the dialog after update_calculations ran on the widgets w
Recalculated(w) ==
    [w |-> w, out |-> update_calculations(w, hedge.out.recommended_hedge)]

\* a spin box edited: valueChanged calls update_calculations
HedgeInputChanged(field, v) ==
    /\ LET w == [hedge.w EXCEPT ![field] =
                     SpinBoxValue(v, HedgeRanges[field][1], HedgeRanges[field][2])]
       IN  /\ w # hedge.w
           /\ hedge' = Recalculated(w)
    /\ UNCHANGED <<simWidgetVars, tableVars, analyzerVars, scoreVars, storedVars, runVars>>

\* another item of position_type picked: currentIndexChanged calls
\* update_calculations
PositionTypeChanged(t) ==
    /\ t # hedge.w.position_type
    /\ hedge' = Recalculated([hedge.w EXCEPT !.position_type = t])
    /\ UNCHANGED <<simWidgetVars, tableVars, analyzerVars, scoreVars, storedVars, runVars>>

\* the other radio button of the delta hedge checked: toggled calls
\* update_calculations
DeltaHedgeToggled ==
    /\ hedge' = Recalculated([hedge.w EXCEPT !.full_delta_hedge = ~@])
    /\ UNCHANGED <<simWidgetVars, tableVars, analyzerVars, scoreVars, storedVars, runVars>>

\* lines 360-371: the hedge delta and gamma of a preset
PresetValues(preset_index) ==
    IF preset_index = 1 THEN <<Rat(-1, 2), Rat(1, 20)>>
    ELSE IF preset_index = 2 THEN <<Rat(1, 2), Rat(1, 20)>>
    ELSE IF preset_index = 3 THEN <<Rat(-3, 10), Rat(1, 25)>>
    ELSE <<Rat(3, 10), Rat(1, 25)>>

\* apply_hedge_preset (lines 351-374) after another preset was picked: each
\* setValue that changes a value calls update_calculations, and so does the
\* last line
ApplyHedgePreset(preset_index) ==
    /\ preset_index # hedge.w.hedge_preset
    /\ LET w0 == [hedge.w EXCEPT !.hedge_preset = preset_index]
           w1 == [w0 EXCEPT !.hedge_delta = PresetValues(preset_index)[1]]
           w2 == [w1 EXCEPT !.hedge_gamma = PresetValues(preset_index)[2]]
           out1 == IF w1 # w0
                   THEN update_calculations(w1, hedge.out.recommended_hedge)
                   ELSE hedge.out
           out2 == IF w2 # w1
                   THEN update_calculations(w2, out1.recommended_hedge)
                   ELSE out1
           out3 == update_calculations(w2, out2.recommended_hedge)
           raised == IF w1 # w0 /\ out1.raised # "none" THEN out1.raised
                     ELSE IF w2 # w1 /\ out2.raised # "none" THEN out2.raised
                     ELSE out3.raised
       IN  hedge' = IF preset_index = 0 THEN [w |-> w0, out |-> hedge.out]
                    ELSE [w |-> w2, out |-> [out3 EXCEPT !.raised = raised]]
    /\ UNCHANGED <<simWidgetVars, tableVars, analyzerVars, scoreVars, storedVars, runVars>>

HedgeNext ==
    \/ \E e \in HedgeEntries : HedgeInputChanged(e[1], e[2])
    \/ \E t \in PositionTypes : PositionTypeChanged(t)
    \/ DeltaHedgeToggled
    \/ \E i \in 0 .. 4 : ApplyHedgePreset(i)

SpecHedge == Init /\ [][HedgeNext]_vars

(***************************************************************************)
(* The scoring engine on its own: a dict of input fields is scored under   *)
(* every metric, repeatedly.                                               *)
(***************************************************************************)
\* the dicts scored: every combination of a few values per field, negative
\* theta (an imported row), ask below bid and a zero underlying included
ScoreInputs ==
    { Option(Rat(100, 1), delta, gamma, theta, vega, bid, ask, slippage,
             underlying, Rat(5, 2), Rat(31, 1)) :
        delta \in {Rat(-1, 2), Rat(1, 2)},
        gamma \in {Zero, Rat(1, 20)},
        theta \in {Rat(-7, 100), Zero, Rat(7, 100)},
        vega \in {Zero, Rat(1, 10)},
        bid \in {Zero, Rat(5, 1)},
        ask \in {Zero, Rat(5, 1)},
        slippage \in {Zero, Rat(1, 50)},
        underlying \in {Zero, Rat(100, 1)} }

ScoreInit ==
    /\ equation_selector = 0
    /\ options_data = <<>>
    /\ contract \in ScoreInputs
    /\ call = NoRun
    /\ sim_results = NoResults
    /\ simulation_detailed_results = EmptyDict
    /\ IdleLocals

\* equation_selector.setCurrentIndex(index)
PickEquation(index) ==
    /\ index # equation_selector
    /\ equation_selector' = index
    /\ results_table' = update_results(options_data, auto_rank_checkbox)
    /\ UNCHANGED <<hedgeVars, simWidgetVars, auto_rank_checkbox, options_data, scoreVars,
                   storedVars, runVars>>

\* formula, result = self.calculate_results(option_data)
CalculateResults ==
    /\ LET r == calculate_results(contract, equation_selector)
       IN  /\ contract' = r.option
           /\ call' = [before |-> contract, index |-> equation_selector,
                       formula |-> r.formula, result |-> r.result,
                       divisors |-> r.divisors, raised |-> r.raised]
    /\ UNCHANGED <<widgetVars, analyzerVars, storedVars, runVars>>

ScoreNext ==
    \/ \E index \in Equations : PickEquation(index)
    \/ CalculateResults

SpecScore == ScoreInit /\ [][ScoreNext]_vars

(***************************************************************************)
(* Properties of the scoring engine (checked under SpecScore).             *)
(***************************************************************************)
Called == call # NoRun

\* the reference definitions of the four metrics
RefTheta(c) == FAbs(c["theta"])
RefSpread(c) == FSub(c["ask"], c["bid"])
RefRv(c) ==
    IF FLe(c["underlying"], Zero) THEN Zero
    ELSE FMul(FDiv(c["atr"], c["underlying"]), Sqrt252)
RefIv(c) == FDiv(c["iv"], Rat(100, 1))
RefVolEdge(c) == FMul(FSub(RefRv(c), RefIv(c)), c["vega"])
RefCost(c) == FAdd(FAdd(RefTheta(c), RefSpread(c)), c["slippage"])
RefSAS(c) ==
    IF FGt(RefTheta(c), Zero)
    THEN FDiv(FMul(c["delta"], c["gamma"]), RefTheta(c)) ELSE Zero
RefRASAS(c) ==
    IF FGt(RefCost(c), Zero)
    THEN FDiv(FMul(c["delta"], c["gamma"]), RefCost(c)) ELSE Zero
RefScore(c, index) ==
    CASE index = 0 -> RefSAS(c)
      [] index = 1 -> RefRASAS(c)
      [] index = 2 -> FAdd(RefSAS(c), RefVolEdge(c))
      [] OTHER -> FAdd(RefRASAS(c), RefVolEdge(c))
\* the names under which the guide presents the four metrics
RefLabel(index) == <<"SAS", "RA-SAS", "TAS", "Expected Return">>[index + 1]
\* the contract with the sign of theta flipped
FlipTheta(c) == [c EXCEPT !["theta"] = FNeg(@)]

\* C6: for every contract and each of the four formulas the score is the
\* value of the reference definition (theta as |theta|, spread = ask - bid,
\* rv = ATR/underlying * sqrt(252) or 0, iv = IV%/100), returned with the
\* label of the selected formula, and it is the same for theta = t and -t.
C6_ScoreMatchesReference ==
    Called =>
        /\ ~call.raised
        /\ call.result = RefScore(call.before, call.index)
        /\ call.formula = RefLabel(call.index)
        /\ calculate_results(FlipTheta(call.before), call.index).result = call.result

\* C6 witness: a contract with negative theta and a volatility edge has been
\* scored under the Expected Return formula, and the score is not zero
C6_Witness ==
    /\ Called
    /\ call.index = 3
    /\ Sign(call.before["theta"]) < 0
    /\ call.before["vega"] # Zero
    /\ call.before["gamma"] # Zero
    /\ FGt(RefCost(call.before), Zero)
    /\ call.result # Zero

\* C7: for a contract with theta = 0 the score under SAS is exactly 0 and the
\* score under TAS is exactly (rv - iv) * vega, whatever delta and gamma are.
C7_ZeroTheta ==
    (Called /\ call.before["theta"] = Zero) =>
        /\ ~call.raised
        /\ (call.index = 0 => call.result = Zero)
        /\ (call.index = 2 => call.result = RefVolEdge(call.before))

\* C7 witness: a contract with theta = 0, delta * gamma # 0 and a non-zero
\* volatility edge has been scored under TAS
C7_Witness ==
    /\ Called
    /\ call.index = 2
    /\ call.before["theta"] = Zero
    /\ FMul(call.before["delta"], call.before["gamma"]) # Zero
    /\ call.result # Zero

\* C8: for a contract with |theta| + (ask - bid) + slippage <= 0 the score
\* under RA-SAS is exactly 0 and under Expected Return exactly (rv - iv) * vega;
\* no call raises and no call divides by a non-positive denominator.
C8_NonPositiveCost ==
    Called =>
        /\ ~call.raised
        /\ \A d \in call.divisors : FGt(d, Zero)
        /\ FLe(RefCost(call.before), Zero) =>
              /\ (call.index = 1 => call.result = Zero)
              /\ (call.index = 3 => call.result = RefVolEdge(call.before))

\* C8 witness: a contract whose cost is negative (ask below bid), with
\* delta * gamma # 0 and a non-zero volatility edge, has been scored under
\* Expected Return
C8_Witness ==
    /\ Called
    /\ call.index = 3
    /\ Sign(RefCost(call.before)) < 0
    /\ FMul(call.before["delta"], call.before["gamma"]) # Zero
    /\ call.result # Zero

\* C9 as stated: after score(contract, formula) returns, every field of the
\* contract record is as it was before the call and no field has been added.
C9_NoSideEffect == Called => contract = call.before

\* C9 amended: the only effect of a call on the contract record is that its
\* rv field holds rv * 100 afterwards (the field is added when the record has
\* none); every other field is as before and no other field is added.
C9_OnlyRvStored ==
    Called =>
        /\ DOMAIN contract = (DOMAIN call.before) \cup {"rv"}
        /\ \A k \in (DOMAIN call.before) \ {"rv"} : contract[k] = call.before[k]
        /\ contract["rv"] = FMul(RefRv(call.before), Rat(100, 1))

\* C9 witness: a record without an rv field has been scored and holds a
\* non-zero rv now
C9_Witness ==
    /\ Called
    /\ "rv" \notin DOMAIN call.before
    /\ "rv" \in DOMAIN contract
    /\ contract["rv"] # Zero

(***************************************************************************)
(* Properties of a simulation run (checked under Spec).                    *)
(***************************************************************************)
Completed == obs.outcome = "completed"
Cancelled == obs.outcome = "cancelled"
\* the five per-path lists of a detail record
DetailLists ==
    {"returns", "delta_contributions", "gamma_contributions",
     "theta_contributions", "vega_contributions"}
\* every list of the detail record d has n entries
HasSamples(d, n) == \A k \in DetailLists : Len(d[k]) = n
\* the strikes of the contracts of the run
RunStrikes == {obs.start_options[i]["strike"] : i \in 1 .. Len(obs.start_options)}

\* C1: when a run over a non-empty contract list is not cancelled, the
\* retained returns list and each of the four retained per-path Greek
\* contribution lists of every contract have exactly pathCount entries.
C1_PathCountSamples ==
    Completed =>
        /\ Len(obs.samples) = Len(obs.start_options)
        /\ \A i \in 1 .. Len(obs.samples) : HasSamples(obs.samples[i], cfg.num_sims)
        /\ \A strike \in RunStrikes :
              /\ strike \in DOMAIN simulation_detailed_results
              /\ HasSamples(simulation_detailed_results[strike], cfg.num_sims)

\* C1 witness: a run of two contracts, or of more than one path, has completed
C1_Witness ==
    /\ Completed
    /\ Len(obs.start_options) * cfg.num_sims >= 2
    /\ \A strike \in RunStrikes :
          Len(simulation_detailed_results[strike]["returns"]) = cfg.num_sims

\* C2: when a cancellation is observed at a path boundary the run is abandoned
\* for all contracts: no summary of the run is stored or returned, also not
\* for the contracts whose paths had all completed, and the summary list
\* stored before the run is unchanged.
C2_CancelAbandonsRun ==
    Cancelled =>
        /\ sim_results = obs.start_results
        /\ local_results = <<>>

\* C2 witness: a run has been cancelled after all paths of its first contract
\* had completed
C2_Witness ==
    /\ Cancelled
    /\ pc = "idle"
    /\ option_idx >= 1
    /\ Len(obs.samples) >= 1

\* C3 as stated: a cancel requested while any path is executing, the last
\* path of the last contract included, is observed before the run emits its
\* summaries, and the run ends cancelled (no run completes after a cancel
\* was requested during it).
C3_CancelAlwaysObserved == Completed => obs.click_at = 0

\* C4 as stated: when no run is in progress, every summary of the stored
\* list has a retained detail record for its contract, produced by the same
\* run and holding that run's pathCount samples; and a cancelled run leaves
\* no per-path detail of its own behind.
C4_RetainedStateConsistent ==
    pc = "idle" =>
        /\ obs.results_run > 0 =>
              \A i \in 1 .. Len(sim_results) :
                 LET strike == sim_results[i].strike
                 IN  /\ strike \in DOMAIN simulation_detailed_results
                     /\ obs.detail_run[strike] = obs.results_run
                     /\ HasSamples(simulation_detailed_results[strike],
                                   obs.last.cfg.num_sims)
        /\ Cancelled =>
              \A strike \in DOMAIN obs.detail_run :
                 obs.detail_run[strike] # obs.run_no

\* the last two completed runs had the same contract list, the same
\* configuration and the same sequence of draws
SameRunInputs ==
    /\ obs.prev # NoRun
    /\ obs.prev.options = obs.last.options
    /\ obs.prev.cfg = obs.last.cfg
    /\ obs.prev.draws = obs.last.draws

\* C5 as stated: two runs given the same contract list, the same
\* configuration and the same sequence of draws produce identical per-path
\* samples and therefore identical summaries.
C5_SameInputsSameSummaries ==
    SameRunInputs =>
        /\ obs.prev.samples = obs.last.samples
        /\ obs.prev.summaries = obs.last.summaries

\* C5 amended: two runs given the same contract list, the same configuration
\* and the same sequence of draws produce identical per-path samples (the
\* return and the four signed contributions of every path); when the selected
\* formula is the same too, their summaries are identical.
C5_Determinism ==
    SameRunInputs =>
        /\ obs.prev.samples = obs.last.samples
        /\ obs.prev.equation = obs.last.equation
              => obs.prev.summaries = obs.last.summaries

\* C5 witness: two completed runs with the same inputs and the same formula,
\* with a path that made a profit
C5_Witness ==
    /\ SameRunInputs
    /\ obs.prev.equation = obs.last.equation
    /\ obs.last.draws # <<>>
    /\ FGt(obs.last.samples[1]["returns"][1], Zero)
    /\ obs.last.summaries[1].win_rate # Zero

\* C10: a run, completed or cancelled, never changes its input: the contract
\* list holds the same contracts in the same order during and after the run,
\* and every field of every contract (Greeks, quotes, slippage, stored rv,
\* formula and result) has the value it had before the run.
C10_InputUnchanged == obs.run_no > 0 => options_data = obs.start_options

\* C10 witness: a run has completed under another formula than the one the
\* first contract was scored with when it was added
C10_Witness ==
    /\ Completed
    /\ options_data[1]["formula"] # FormulaLabel(equation_selector)
    /\ "rv" \in DOMAIN options_data[1]

(***************************************************************************)
(* Properties of a path (checked under Spec).                              *)
(***************************************************************************)
\* a path of the current contract has finished and `path` still holds its
\* final values
PathDone == pc \in {"path", "summary"} /\ sim_idx >= 1
\* the last element of a non-empty list
LastOf(s) == s[Len(s)]
\* the sample of the path that finished last
LastReturn == LastOf(detailed_data["returns"])
\* (bid + ask) / 2
RefMid(c) == FDiv(FAdd(c["bid"], c["ask"]), Rat(2, 1))
\* the exit value of a path that ends with the option value v
RefExit(c, realistic, v) ==
    IF ~realistic THEN v
    ELSE IF FGt(v, RefMid(c)) THEN FSub(v, c["slippage"])
         ELSE FAdd(v, c["slippage"])

\* C11: with realistic execution a path's exit value is optionValue - slippage
\* when the final optionValue is strictly greater than the initial mid-price
\* and optionValue + slippage otherwise (equality included); without it the
\* exit value is optionValue; totalReturn = exitValue - (bid + ask) / 2.
C11_ExitValue ==
    PathDone =>
        LastReturn = FSub(RefExit(CurrentOption, cfg.use_realistic, path.option_value),
                          RefMid(CurrentOption))

\* C11 witness: a path run with realistic execution has ended with the option
\* value equal to the mid-price, and its return is the slippage
C11_Witness ==
    /\ PathDone
    /\ cfg.use_realistic
    /\ path.option_value = RefMid(CurrentOption)
    /\ CurrentOption["slippage"] # Zero
    /\ LastReturn = CurrentOption["slippage"]

\* every draw of the current contract so far was 0
AllDrawsZero ==
    \A i \in 1 .. Len(obs.days) : obs.days[i].z = Zero /\ obs.days[i].z2 = Zero

CoreFields == {"delta", "gamma", "theta", "vega", "bid", "ask", "slippage"}
Core(c) == [k \in CoreFields |-> c[k]]
\* the draws of the days of a contract, in order
DrawsOf(days) == [i \in 1 .. Len(days) |-> <<days[i].z, days[i].z2>>]
\* a path has just been set up
PathStarted == pc \in {"day", "exit"} /\ day = 0

\* C13: every path of every contract starts from price =
\* config.startingUnderlyingPrice and optionValue = (bid + ask) / 2 with its
\* contributions at 0, and two contracts of a run that differ only in strike,
\* underlying price, ATR and IV yield identical per-path samples under the
\* same draws.
C13_StartAndIndependence ==
    /\ PathStarted =>
          /\ path.current_price = cfg.stock_price
          /\ path.option_value = RefMid(CurrentOption)
          /\ path.this_delta_contrib = Zero /\ path.this_gamma_contrib = Zero
          /\ path.this_theta_contrib = Zero /\ path.this_vega_contrib = Zero
    /\ \A i, j \in 1 .. Len(obs.samples) :
          (/\ Core(options_data[i]) = Core(options_data[j])
           /\ DrawsOf(obs.contract_days[i]) = DrawsOf(obs.contract_days[j]))
          => obs.samples[i] = obs.samples[j]

\* C13 witness: two contracts of a run with different strike, underlying
\* price, ATR and IV and otherwise equal fields have been simulated with the
\* same draws, a price move among them
C13_Witness ==
    /\ Len(obs.samples) = 2
    /\ Core(options_data[1]) = Core(options_data[2])
    /\ options_data[1]["strike"] # options_data[2]["strike"]
    /\ options_data[1]["underlying"] # options_data[2]["underlying"]
    /\ options_data[1]["atr"] # options_data[2]["atr"]
    /\ options_data[1]["iv"] # options_data[2]["iv"]
    /\ DrawsOf(obs.contract_days[1]) = DrawsOf(obs.contract_days[2])
    /\ obs.contract_days[1][1].z # Zero
    /\ obs.samples[1]["returns"][1] # Zero
    /\ cfg.stock_price # options_data[1]["underlying"]
    /\ cfg.stock_price # options_data[2]["underlying"]

(***************************************************************************)
(* Properties of the summaries (checked under Spec).  The i-th summary of  *)
(* the run in progress is local_results[i]; it belongs to options_data[i], *)
(* its samples are obs.samples[i] and its days obs.contract_days[i].       *)
(***************************************************************************)
Summarized == 1 .. Len(local_results)
ReturnsOf(i) == obs.samples[i]["returns"]
\* the number of paths of the i-th contract whose return is greater than 0
WinsOf(i) == Cardinality({k \in 1 .. Len(ReturnsOf(i)) : FGt(ReturnsOf(i)[k], Zero)})
Hundred == Rat(100, 1)

\* C14: for every summary winRate = (number of paths with totalReturn
\* strictly greater than 0) / pathCount * 100, which lies in [0, 100]; a path
\* with totalReturn exactly 0 is not a win.
C14_WinRate ==
    \A i \in Summarized :
        /\ Len(ReturnsOf(i)) = cfg.num_sims
        /\ local_results[i].win_rate = FMul(Rat(WinsOf(i), cfg.num_sims), Hundred)
        /\ FGe(local_results[i].win_rate, Zero)
        /\ FLe(local_results[i].win_rate, Hundred)

\* C14 witness: a summary of a contract one of whose paths returned exactly 0,
\* with a win rate of 0, beside a summary with a win rate of 100
C14_Witness ==
    /\ Len(local_results) = 2
    /\ \E i \in Summarized :
          /\ \E k \in 1 .. Len(ReturnsOf(i)) : ReturnsOf(i)[k] = Zero
          /\ local_results[i].win_rate = Zero
    /\ \E i \in Summarized : local_results[i].win_rate = Hundred

\* C15: for every summary meanReturnPct = meanReturn / ((bid + ask) / 2) * 100
\* when (bid + ask) / 2 > 0, and it is exactly 0 when (bid + ask) / 2 <= 0 (no
\* division by a non-positive initial value is made).
C15_MeanReturnPct ==
    \A i \in Summarized :
        LET mid == RefMid(options_data[i])
            mean == local_results[i].avg_return
        IN  /\ mean = FDiv(SumSeq(ReturnsOf(i)), Rat(cfg.num_sims, 1))
            /\ FGt(mid, Zero) =>
                  local_results[i].avg_return_pct = FMul(FDiv(mean, mid), Hundred)
            /\ FLe(mid, Zero) => local_results[i].avg_return_pct = Zero

\* C15 witness: a summary of a contract whose mid-price is 0 and whose mean
\* return is not 0, beside a summary with a non-zero meanReturnPct
C15_Witness ==
    /\ Len(local_results) = 2
    /\ \E i \in Summarized :
          /\ RefMid(options_data[i]) = Zero
          /\ local_results[i].avg_return # Zero
          /\ local_results[i].avg_return_pct = Zero
    /\ \E i \in Summarized : local_results[i].avg_return_pct # Zero

\* x is the largest element of the non-empty list s
IsMaxOf(x, s) ==
    /\ \E k \in 1 .. Len(s) : s[k] = x
    /\ \A k \in 1 .. Len(s) : FGe(x, s[k])
\* the summary the code of lines 275-314 builds from an empty path sequence
EmptySummary == OptionResult(CurrentOption, FreshAcc, Zero)

RECURSIVE SumAbs(_, _)
\* the sum over the days of the absolute value of the change named f
SumAbs(days, f) ==
    IF days = <<>> THEN Zero
    ELSE FAdd(SumAbs(Tail(days), f), FAbs(Head(days).change[f]))
\* the unsigned totals of the i-th contract over all its paths and days
RefTotals(i) ==
    [Delta |-> SumAbs(obs.contract_days[i], "delta_change"),
     Gamma |-> SumAbs(obs.contract_days[i], "gamma_change"),
     Theta |-> SumAbs(obs.contract_days[i], "theta_change"),
     Vega |-> SumAbs(obs.contract_days[i], "vega_change")]
\* position of a Greek in the order Delta, Gamma, Theta, Vega
Rank(name) == CHOOSE k \in 1 .. 4 : FactorNames[k] = name

\* C17: dominantFactor of a summary is a Greek whose unsigned total over all
\* paths and days is maximal, and among the Greeks that tie for the maximum
\* (all four totals 0 included) the earliest of Delta, Gamma, Theta, Vega.
C17_DominantFactor ==
    \A i \in Summarized :
        LET t == RefTotals(i)
            d == local_results[i].primary_factor
        IN  /\ d \in DOMAIN t
            /\ \A g \in DOMAIN t : FGe(t[d], t[g])
            /\ \A g \in DOMAIN t : t[g] = t[d] => Rank(d) <= Rank(g)

\* C17 witness: a summary whose four totals are all 0, with Delta dominant,
\* beside a summary whose dominant factor is not Delta
C17_Witness ==
    /\ Len(local_results) = 2
    /\ \E i \in Summarized :
          /\ \A g \in DOMAIN RefTotals(i) : RefTotals(i)[g] = Zero
          /\ local_results[i].primary_factor = "Delta"
    /\ \E i \in Summarized : local_results[i].primary_factor # "Delta"

\* C18 as stated: the factorContributionTotals stored in a summary are, for
\* each Greek, the sum over all paths and all days of the absolute value of
\* that Greek's per-day change.
C18_UnsignedTotalsStored ==
    \A i \in Summarized :
        \A g \in DOMAIN RefTotals(i) :
            local_results[i].factor_contributions[g] = RefTotals(i)[g]

(***************************************************************************)
(* Properties of the ranking and of the progress report (under Spec).      *)
(***************************************************************************)
\* the permutations of 1 .. n
Perms(n) == {f \in [1 .. n -> 1 .. n] : \A a, b \in 1 .. n : f[a] = f[b] => a = b}
\* out is the list in, ordered by avg_return descending, equal elements in
\* their order in the list in
StablyRanked(in, out) ==
    /\ Len(out) = Len(in)
    /\ \E f \in Perms(Len(in)) :
          /\ \A k \in 1 .. Len(in) : out[k] = in[f[k]]
          /\ \A k, l \in 1 .. Len(in) :
                k < l =>
                   /\ FGe(out[k].avg_return, out[l].avg_return)
                   /\ out[k].avg_return = out[l].avg_return => f[k] < f[l]

\* C19: after a completed run the stored summary list is a permutation of the
\* per-contract summaries, one per input contract, ordered by meanReturn
\* descending, and summaries with equal meanReturn keep the order in which
\* their contracts were supplied.
C19_StableRanking ==
    obs.results_run > 0 =>
        /\ Len(obs.last.summaries) = Len(obs.last.options)
        /\ \A i \in 1 .. Len(obs.last.options) :
              obs.last.summaries[i].strike = obs.last.options[i]["strike"]
        /\ StablyRanked(obs.last.summaries, sim_results)

\* C19 witness: a run of two contracts with different strikes and equal mean
\* returns has completed, and the contract supplied first is ranked first
C19_Witness ==
    /\ obs.results_run > 0
    /\ Len(sim_results) = 2
    /\ sim_results[1].avg_return = sim_results[2].avg_return
    /\ sim_results[1].strike # sim_results[2].strike
    /\ sim_results[1].strike = obs.last.options[1]["strike"]
    /\ sim_results[1].avg_return # Zero

\* contractCount * pathCount, the maximum of the progress dialog
TotalPaths == Len(options_data) * cfg.num_sims
\* the progress value, the position in the loops and the summaries agree
ProgressState ==
    /\ obs.run_no > 0 => sim_counter <= TotalPaths
    /\ pc = "contract" => sim_counter = option_idx * cfg.num_sims
    /\ pc \in {"path", "day", "exit", "summary"} =>
          sim_counter = option_idx * cfg.num_sims + sim_idx
    /\ pc = "store" => sim_counter = TotalPaths
    /\ pc # "idle" => Len(local_results) = option_idx
    /\ \A i \in Summarized : local_results[i].strike = options_data[i]["strike"]
    /\ (pc = "idle" /\ obs.run_no > 0) =>
          (obs.outcome = "completed" <=> sim_counter = TotalPaths)
\* within a run the progress value changes only when a path completes, and
\* then by one
ProgressStep ==
    pc # "idle" =>
        /\ sim_counter' >= sim_counter
        /\ pc = "exit" => sim_counter' = sim_counter + 1
        /\ pc # "exit" => sim_counter' = sim_counter

\* C20: progress is reported once per completed path and contracts are
\* processed in the order supplied: after path p of contract c the progress
\* value is c * pathCount + p + 1; it never decreases within a run, never
\* exceeds contractCount * pathCount, and equals contractCount * pathCount
\* exactly when a run finishes without having been cancelled.
C20_Progress == [][ProgressStep /\ ProgressState']_vars

\* C20 witness: the only path of the second contract of a run has completed
\* and the progress value is 1 * pathCount + 0 + 1, the total
C20_Witness ==
    /\ pc = "summary"
    /\ option_idx = 1
    /\ sim_idx = 1
    /\ Len(local_results) = 1
    /\ sim_counter = 2
    /\ sim_counter = TotalPaths

(***************************************************************************)
(* Properties of the configuration (checked under SpecConfig).             *)
(***************************************************************************)
InRange(v, range) == FGe(v, range[1]) /\ FLe(v, range[2])

BlockOf(i, k) ==
    LET h == cfg.holding_period
    IN  [j \in 1 .. h |-> <<obs.contract_days[i][(k - 1) * h + j].z,
                            obs.contract_days[i][(k - 1) * h + j].z2>>]
\* the loops of the i-th contract run again with its paths in the order f
Replayed(i, f) ==
    RunPaths(options_data[i], cfg, FreshAcc, FreshDetail,
             [k \in 1 .. cfg.num_sims |-> BlockOf(i, f[k])])
TotalsOf(a) ==
    <<a.delta_contrib, a.gamma_contrib, a.theta_contrib, a.vega_contrib>>

\* C22: the summary of a contract does not depend on the order of its
\* paths: the loops run again over any permutation of the per-path draw
\* blocks give the same avg_return, avg_return_pct, win_rate, best_case,
\* primary_factor and factor_contributions as the summary of the run, and
\* the same four unsigned totals whatever the permutation.
C22_PathOrder ==
    \A i \in Summarized :
        \A f \in Perms(cfg.num_sims) :
            LET r == Replayed(i, f)
                s == OptionResult(options_data[i], r.acc, local_results[i].initial_score)
            IN  /\ s = local_results[i]
                /\ TotalsOf(r.acc) = TotalsOf(Replayed(i, [k \in 1 .. cfg.num_sims |-> k]).acc)

\* C22 witness: a summary of two paths whose returns differ
C22_Witness ==
    \E i \in Summarized :
        /\ Len(ReturnsOf(i)) = 2
        /\ ReturnsOf(i)[1] # ReturnsOf(i)[2]

(***************************************************************************)
(* Properties of realistic execution (checked under Spec).                 *)
(***************************************************************************)
\* the last two completed runs differ in use_realistic only: the earlier one
\* ran without it, the later one with it
RealisticSwitchedOn ==
    /\ obs.prev # NoRun
    /\ obs.prev.options = obs.last.options
    /\ obs.prev.draws = obs.last.draws
    /\ ~obs.prev.cfg.use_realistic
    /\ obs.last.cfg = [obs.prev.cfg EXCEPT !.use_realistic = TRUE]
    /\ \A i \in 1 .. Len(obs.last.options) :
          FGe(obs.last.options[i]["slippage"], Zero)
\* the number of returns above 0 in a list of returns
WinsIn(returns) == Cardinality({k \in 1 .. Len(returns) : FGt(returns[k], Zero)})

\* C23 as stated: for the same contracts (slippage >= 0), configuration and
\* draws, the return of every path with realistic execution is at most its
\* return without it, and the win count with realistic execution is not
\* higher.
C23_RealisticNeverBetter ==
    RealisticSwitchedOn =>
        \A i \in 1 .. Len(obs.last.samples) :
            LET with == obs.last.samples[i]["returns"]
                without == obs.prev.samples[i]["returns"]
            IN  /\ \A k \in 1 .. Len(with) : FLe(with[k], without[k])
                /\ WinsIn(with) <= WinsIn(without)

(***************************************************************************)
(* Properties of the retained detail (checked under Spec).                 *)
(***************************************************************************)
\* C24 as stated: after a completed run the number of retained detail
\* records equals the number of contracts, and the detail looked up for a
\* summary is the one produced for that summary's contract, also when two
\* contracts have the same strike.
C24_DetailPerContract ==
    (Completed /\ pc = "idle") =>
        /\ Cardinality(DOMAIN simulation_detailed_results) = Len(obs.last.options)
        /\ \A i \in 1 .. Len(obs.last.summaries) :
              DetailFor(obs.last.summaries[i]) = obs.last.samples[i]

(***************************************************************************)
(* Properties of the attribution of a path (checked under Spec).           *)
(***************************************************************************)
\* the days of the current path so far, the latest last
PathDays == SubSeq(obs.days, Len(obs.days) - day + 1, Len(obs.days))
RECURSIVE PriceBefore(_, _)
\* the price at the start of day j of a path: the starting price plus the
\* price changes of the days before j
PriceBefore(days, j) ==
    IF j = 1 THEN cfg.stock_price
    ELSE FAdd(PriceBefore(days, j - 1), days[j - 1].change.price_change)
\* the sum of the four signed contributions of a path
SignedSum(d, t, g, v) == FAdd(FAdd(d, g), FAdd(t, v))

DaysSoFar ==
    option_idx * cfg.num_sims * cfg.holding_period
    + (IF pc \in {"contract", "store"} THEN 0
       ELSE sim_idx * cfg.holding_period
            + (IF pc \in {"day", "exit"} THEN day ELSE 0))

\* C26: every simulated day takes exactly two draws, the first for the
\* price move and the second for the IV shock, and nothing else draws: at
\* every point of a run the number of pairs drawn is the number of days
\* simulated so far in contract, path, day order, every day's price change
\* comes from the first draw of its pair and its vega change from the
\* second, and a run that was not cancelled has drawn
\* 2 * contracts * num_sims * holding_period values.
C26_DrawsPerDay ==
    /\ pc # "idle" =>
          /\ Len(obs.draws) = DaysSoFar
          /\ \A j \in 1 .. Len(obs.days) :
                LET d == obs.days[j]
                    iv_change == FSub(FMul(Rat(1, 100), d.z2),
                                      FMul(Rat(5, 1000),
                                           Rat(Sign(d.change.price_change), 1)))
                IN  /\ Sign(d.change.price_change) = Sign(d.z)
                    /\ d.change.vega_change =
                          FMul(FMul(CurrentOption["vega"], iv_change), Rat(100, 1))
    /\ pc = "store" =>
          2 * Len(obs.draws)
            = 2 * Len(options_data) * cfg.num_sims * cfg.holding_period

\* C26 witness: a run of two contracts about to be stored, whose first day
\* had an IV shock and a price move
C26_Witness ==
    /\ pc = "store"
    /\ Len(options_data) = 2
    /\ Len(obs.draws) = 2
    /\ obs.draws[1] = <<DrawDown, One>>
    /\ obs.draws[2] = <<DrawUp, Zero>>

(***************************************************************************)
(* Properties of the analyzer (checked under SpecAnalyzer).                *)
(***************************************************************************)
\* the eleven input fields of a contract, as its table row shows them
InputFields ==
    {"strike", "delta", "gamma", "theta", "vega", "bid", "ask", "slippage",
     "underlying", "atr", "iv"}
Shown(c) == [f \in InputFields |-> c[f]]

\* C27 as stated: delete_selected_option removes exactly the contract that
\* is displayed in the selected table row, whatever the list and the
\* auto-rank setting; the other contracts stay in their original relative
\* order; declining the confirmation leaves the list unchanged.
C27_DeletesDisplayedRow ==
    obs.deleted # NoRun =>
        LET d == obs.deleted
        IN  IF d.reply
            THEN \E k \in 1 .. Len(d.before) :
                    /\ Shown(d.before[k]) = Shown(d.table[d.row])
                    /\ d.after = Pop(d.before, k)
            ELSE d.after = d.before

\* C28 as stated: after _plot_curve returns, the selected equation index is
\* the one selected before the call and the formula label and the result of
\* every stored contract are unchanged.
C28_PlotLeavesState ==
    obs.plotted # NoRun =>
        LET p == obs.plotted
        IN  /\ p.index_after = p.index_before
            /\ Len(p.after) = Len(p.before)
            /\ \A k \in 1 .. Len(p.before) :
                  /\ p.after[k]["formula"] = p.before[k]["formula"]
                  /\ p.after[k]["result"] = p.before[k]["result"]

(***************************************************************************)
(* Properties of the hedge calculator (checked under SpecHedge).           *)
(***************************************************************************)
\* C29 as stated: update_calculations completes without raising for every
\* combination of inputs inside the widget ranges, a hedge option delta or
\* gamma of 0 with |delta exposure| > 100 and |gamma exposure| > 50
\* included, and a recommended delta-gamma neutral hedge names the share
\* and contract quantities computed from the inputs of the same call.
C29_NeverRaises ==
    /\ hedge.out.raised = "none"
    /\ hedge.out.recommended_hedge.kind = "Delta-Gamma Neutral Hedge" =>
          LET e == PositionExposure(hedge.w)
              n == NeutralHedge(e.delta, e.gamma, hedge.w.hedge_delta,
                                hedge.w.hedge_gamma)
          IN  /\ NeutralHedgeExists(e.delta, e.gamma, hedge.w.hedge_delta,
                                    hedge.w.hedge_gamma)
              /\ hedge.out.recommended_hedge.shares = Quantity(n.stock_shares)
              /\ hedge.out.recommended_hedge.contracts = Quantity(n.option_contracts)

(***************************************************************************)
(* Properties of the two implementations of the run (checked under Spec).  *)
(***************************************************************************)
\* what quant_options_alpha_analyzer.py stores for the inputs and the draws
\* of the last completed run
MonoStored ==
    mono_run_simulation(obs.last.options, obs.last.cfg, obs.last.equation,
                        obs.last.draws)
\* the fields of a summary other than factor_contributions
SummaryFields ==
    {"strike", "initial_score", "avg_return", "avg_return_pct", "win_rate",
     "best_case", "primary_factor"}

\* C30 as stated: for the same contract list, configuration, selected
\* formula and draws, the two run_simulation store summary lists that agree,
\* contract by contract and in the same order, on strike, initial_score,
\* avg_return, avg_return_pct, win_rate, best_case, primary_factor and
\* factor_contributions, and they store the same per-path detail.
C30_SameStored ==
    (Completed /\ pc = "idle") =>
        LET m == MonoStored
        IN  /\ Len(m.sim_results) = Len(sim_results)
            /\ \A k \in 1 .. Len(sim_results) :
                  /\ \A f \in SummaryFields : m.sim_results[k][f] = sim_results[k][f]
                  /\ m.sim_results[k].factor_contributions
                        = sim_results[k].factor_contributions
            /\ m.simulation_detailed_results = simulation_detailed_results

====
